---- MODULE Spec2Model ----
(***************************************************************************)
(* Hybrid option pricing engine (RCPS / CB / CPS / ESO) on a CRR lattice.  *)
(*                                                                         *)
(* Numbers.  A JavaScript number is modelled as an exact rational          *)
(* <<numerator, denominator>> in lowest terms with a positive denominator. *)
(* A missing value (undefined / null) is Null == <<0, 0>>.                 *)
(*                                                                         *)
(* Dates.  A date is an integer count of days; NoDate is a missing date.   *)
(*                                                                         *)
(* Exponentials.  The engine uses rates and the volatility only through    *)
(* Math.exp(rate * dt) and Math.exp(sigma * Math.sqrt(dt)).  A rate field  *)
(* of the model therefore carries the per-step accumulation factor         *)
(* exp(rate * dt) (1 for a zero rate, above 1 for a positive rate), and    *)
(* the volatility field carries u = exp(sigma * sqrt(dt)).  exp(-x) is the *)
(* reciprocal and exp(x + y) is the product of the factors.                *)
(***************************************************************************)
EXTENDS Integers, Sequences, FiniteSets, TLC

VARIABLES
    pc,               \* "ready" | "priced" (one engine call); "deal" | "done" (calculateDeal);
                      \* "terminal" | "induction" (inside the lattice loops);
                      \* "curve" | "interpolated" (one getInterpolatedYield call)
    fullSec,          \* the SecuritySchema passed to runPricingEngine
    res,              \* the PricingResult it returned
    S, D, E, Flags,   \* the lattices of that pricing: X[t][i]
    cp_at_step,       \* the refixing schedule of that pricing (index t + 1)
    deal,             \* the DealSchema being valued
    securityResults,  \* calculateDeal's list of priced securities so far
    dealResult,       \* the DealResult set at the end of calculateDeal
    curve,            \* the YieldPoint[] passed to getInterpolatedYield
    targetTenor,      \* the tenor it is asked for
    rf_y,             \* the yield it returned
    cursor,           \* <<t, i>> of the lattice loops while a pricing runs node by node
    written           \* the nodes <<t, i>> those loops have assigned, in order

vars == <<pc, fullSec, res, S, D, E, Flags, cp_at_step, deal, securityResults, dealResult,
          curve, targetTenor, rf_y, cursor, written>>

(***************************************************************************)
(* Exact arithmetic on numbers                                             *)
(***************************************************************************)
Null == <<0, 0>>

NoDate == -1

Abs(n) == IF n < 0 THEN -n ELSE n

RECURSIVE GCD(_, _)
GCD(a, b) == IF b = 0 THEN a ELSE GCD(b, a % b)

Rat(n, d) ==
    LET g == GCD(Abs(n), Abs(d))
        s == IF d < 0 THEN -1 ELSE 1
    IN  <<(s * n) \div g, (s * d) \div g>>

Num(n) == <<n, 1>>

Zero == Num(0)

One == Num(1)

RAdd(a, b) ==
    LET g == GCD(a[2], b[2])
    IN  Rat(a[1] * (b[2] \div g) + b[1] * (a[2] \div g), (a[2] \div g) * b[2])

RNeg(a) == <<-a[1], a[2]>>

RSub(a, b) == RAdd(a, RNeg(b))

RMul(a, b) ==
    LET g1 == GCD(Abs(a[1]), b[2])
        g2 == GCD(Abs(b[1]), a[2])
    IN  Rat((a[1] \div g1) * (b[1] \div g2), (a[2] \div g2) * (b[2] \div g1))

RDiv(a, b) == RMul(a, Rat(b[2], b[1]))

RLt(a, b) ==
    LET g == GCD(a[2], b[2])
    IN  a[1] * (b[2] \div g) < b[1] * (a[2] \div g)

RLe(a, b) == ~RLt(b, a)

RMax(a, b) == IF RLt(a, b) THEN b ELSE a

RMin(a, b) == IF RLt(b, a) THEN b ELSE a

\* JavaScript truthiness of an optional number: undefined, null and 0 are falsy.
Truthy(a) == a[1] # 0

RECURSIVE RPow(_, _)
RPow(a, n) == IF n = 0 THEN One ELSE RMul(a, RPow(a, n - 1))

(***************************************************************************)
(* Time grid                                                               *)
(***************************************************************************)
WeekDays == 7

YearDays == 365

getDateDiffYears(d1, d2) == Rat(d2 - d1, YearDays)

\* Variant: the loop also takes a node dated on the maturity date.
RECURSIVE WeeklySteps_inclusive(_, _, _, _)
WeeklySteps_inclusive(valDate, matDate, currentDate, step) ==
    IF currentDate <= matDate
    THEN <<[step |-> step, date |-> currentDate,
            t_years |-> getDateDiffYears(valDate, currentDate)]>>
         \o WeeklySteps_inclusive(valDate, matDate, currentDate + WeekDays, step + 1)
    ELSE <<[step |-> step, date |-> matDate,
            t_years |-> getDateDiffYears(valDate, matDate)]>>

\* The while loop of generateTimeGrid: one node every 7 days while strictly
\* before maturity.
RECURSIVE WeeklySteps(_, _, _, _)
WeeklySteps(valDate, matDate, currentDate, step) ==
    IF currentDate < matDate
    THEN <<[step |-> step, date |-> currentDate,
            t_years |-> getDateDiffYears(valDate, currentDate)]>>
         \o WeeklySteps(valDate, matDate, currentDate + WeekDays, step + 1)
    ELSE <<[step |-> step, date |-> matDate,
            t_years |-> getDateDiffYears(valDate, matDate)]>>

\* Variant: a one-point grid for a maturity on or before the valuation date.
generateTimeGrid_one_point(valDate, matDate) ==
    IF matDate <= valDate
    THEN <<[step |-> 0, date |-> valDate, t_years |-> Zero]>>
    ELSE WeeklySteps(valDate, matDate, valDate, 0)

\* The grid is a sequence; grid[t + 1] is the code's time_grid[t].
generateTimeGrid(valDate, matDate) ==
    IF matDate <= valDate
    THEN <<[step |-> 0, date |-> valDate, t_years |-> Zero],
           [step |-> 1, date |-> valDate, t_years |-> Rat(27, 10000)]>>
    ELSE WeeklySteps(valDate, matDate, valDate, 0)

(***************************************************************************)
(* Refixing schedule (calculateTF, section 2)                              *)
(***************************************************************************)
FallbackSharesOutstanding == 1000000

\* [...reset_events].sort(by event_date): a stable insertion sort.
RECURSIVE InsertByDate(_, _)
InsertByDate(evt, sorted) ==
    IF sorted = <<>> THEN <<evt>>
    ELSE IF evt.event_date < Head(sorted).event_date
         THEN <<evt>> \o sorted
         ELSE <<Head(sorted)>> \o InsertByDate(evt, Tail(sorted))

\* Variant: the events left in the order of the input list.
SortEvents_input_order(events) == events

RECURSIVE SortEvents(_)
SortEvents(events) ==
    IF events = <<>> THEN <<>>
    ELSE InsertByDate(events[Len(events)], SortEvents(SubSeq(events, 1, Len(events) - 1)))

\* Broad-based weighted average: CP_old * ((SO + (SP_new / CP_old) * SN_new) / (SO + SN_new)).
WeightedAverageCP(evt, CP_old) ==
    LET SO == IF Truthy(evt.shares_outstanding_before_reset)
              THEN evt.shares_outstanding_before_reset
              ELSE Num(FallbackSharesOutstanding)
        num == RAdd(SO, RMul(RDiv(evt.issue_price_new, CP_old), evt.issue_shares_new))
        den == RAdd(SO, evt.issue_shares_new)
    IN  RMul(CP_old, RDiv(num, den))

\* Variant: no floor clamp.
ApplyFloor_none(floor, cp) == cp

\* The floor is applied inside the branch that lowered the price.
ApplyFloor(floor, cp) == IF Truthy(floor) /\ RLt(cp, floor) THEN floor ELSE cp

\* Variant: a full ratchet that takes the new issue price whether or not it is lower.
ApplyResetEvent_unguarded(anti_dilution_type, floor, current_cp, evt) ==
    IF anti_dilution_type = "FULL_RATCHET" THEN ApplyFloor(floor, evt.issue_price_new)
    ELSE IF RLt(evt.issue_price_new, current_cp)
         THEN ApplyFloor(floor, WeightedAverageCP(evt, current_cp))
         ELSE current_cp

\* The body of the while loop: the new current_cp after one reset event.
ApplyResetEvent(anti_dilution_type, floor, current_cp, evt) ==
    IF RLt(evt.issue_price_new, current_cp)
    THEN LET lowered == IF anti_dilution_type = "FULL_RATCHET" THEN evt.issue_price_new
                        ELSE IF anti_dilution_type = "WA_DOWN_ONLY"
                             THEN WeightedAverageCP(evt, current_cp)
                             ELSE current_cp
         IN  ApplyFloor(floor, lowered)
    ELSE current_cp

\* while (eventIdx < sortedEvents.length && event_date <= stepDate): returns the
\* state of the sweep <<current_cp, eventIdx>> (eventIdx is 1-based here).
RECURSIVE ConsumeEvents(_, _, _, _, _, _)
ConsumeEvents(anti_dilution_type, floor, sortedEvents, eventIdx, current_cp, stepDate) ==
    IF eventIdx <= Len(sortedEvents) /\ sortedEvents[eventIdx].event_date <= stepDate
    THEN ConsumeEvents(anti_dilution_type, floor, sortedEvents, eventIdx + 1,
                       ApplyResetEvent(anti_dilution_type, floor, current_cp,
                                       sortedEvents[eventIdx]),
                       stepDate)
    ELSE <<current_cp, eventIdx>>

\* for (t = 0; t <= N; t++): the values cp_at_step[t..N] as a sequence.
RECURSIVE RefixSweep(_, _, _, _, _, _, _, _)
RefixSweep(anti_dilution_type, floor, sortedEvents, time_grid, N, t, eventIdx, current_cp) ==
    IF t > N THEN <<>>
    ELSE LET st == ConsumeEvents(anti_dilution_type, floor, sortedEvents, eventIdx,
                                 current_cp, time_grid[t + 1].date)
         IN  <<st[1]>> \o RefixSweep(anti_dilution_type, floor, sortedEvents, time_grid,
                                     N, t + 1, st[2], st[1])

\* cp_at_step as a sequence: RefixingSchedule(...)[t + 1] is the code's cp_at_step[t].
RefixingSchedule(security, time_grid, N) ==
    IF security.anti_dilution_type # "NONE" /\ Len(security.reset_events) > 0
    THEN RefixSweep(security.anti_dilution_type, security.refixing_floor_price,
                    SortEvents(security.reset_events), time_grid, N, 0, 1,
                    security.conversion_price)
    ELSE [t \in 1..(N + 1) |-> security.conversion_price]

(***************************************************************************)
(* Calculation unit (calculateTF, section 1)                               *)
(***************************************************************************)
isPerShare(security) == security.security_type # "CB"

unit_face_value(security) ==
    IF isPerShare(security)
    THEN RDiv(security.total_issue_price, security.num_issued_shares)
    ELSE security.total_issue_price

unit_redemption_value(security) ==
    RMul(unit_face_value(security), RAdd(One, security.repayment_premium_rate))

unit_periodic_cf(security, dt) ==
    IF isPerShare(security)
    THEN RMul(RMul(unit_face_value(security),
                   RAdd(security.coupon_rate, security.dividend_rate)), dt)
    ELSE RMul(RMul(unit_face_value(security), security.coupon_rate), dt)

\* Variant: a positive override used under every anti-dilution policy.
getEffectiveConversionRatio_any_policy(ctx, t) ==
    IF Truthy(ctx.security.conversion_ratio) /\ RLt(Zero, ctx.security.conversion_ratio)
    THEN ctx.security.conversion_ratio
    ELSE RDiv(unit_face_value(ctx.security), ctx.cp_at_step[t + 1])

\* The context of one pricing: the arguments of calculateTF / calculateESO and
\* the values they derive before the lattice is built.
getEffectiveConversionRatio(ctx, t) ==
    IF Truthy(ctx.security.conversion_ratio)
       /\ RLt(Zero, ctx.security.conversion_ratio)
       /\ ctx.security.anti_dilution_type = "NONE"
    THEN ctx.security.conversion_ratio
    ELSE RDiv(unit_face_value(ctx.security), ctx.cp_at_step[t + 1])

\* S[t][i] = S0 * u^i * d^(t - i)
SharePrice(ctx, t, i) ==
    RMul(RMul(ctx.security.share_price_current, RPow(ctx.u, i)), RPow(ctx.d, t - i))

(***************************************************************************)
(* TF lattice (calculateTF, sections 4 and 5).  A node is [D, E, flag].    *)
(***************************************************************************)
\* Variant: participation read from participation_type alone.
isParticipating_any_type(security) == security.participation_type = "PARTICIPATING"

isParticipating(security) ==
    security.security_type = "RCPS" /\ security.participation_type = "PARTICIPATING"

\* Terminal payoff of node (N, i).
TFTerminalNode(ctx, i) ==
    LET S_T == SharePrice(ctx, ctx.N, i)
        ratio == getEffectiveConversionRatio(ctx, ctx.N)
        val_convert_base == RMul(S_T, ratio)
        redeem_val == RAdd(unit_redemption_value(ctx.security), ctx.unit_periodic_cf)
        payoff_hold == redeem_val
        uncapped == RAdd(redeem_val, val_convert_base)
        double_dip == IF Truthy(ctx.security.participation_cap_multiple)
                      THEN RMin(uncapped, RMul(unit_face_value(ctx.security),
                                               ctx.security.participation_cap_multiple))
                      ELSE uncapped
        payoff_conv == IF isParticipating(ctx.security)
                       THEN RMax(double_dip, val_convert_base)
                       ELSE val_convert_base
    IN  IF RLt(payoff_hold, payoff_conv)
        THEN [D |-> Zero, E |-> payoff_conv,
              flag |-> IF ctx.security.participation_type = "PARTICIPATING"
                       THEN "MAT_PARTICIPATE" ELSE "MAT_CONVERT"]
        ELSE [D |-> payoff_hold, E |-> Zero, flag |-> "MAT_REDEEM"]

\* Variant: the end date excluded from the window.
InWindow_end_excluded(has_option, price, start_date, end_date, maturity_date, stepDate) ==
    /\ has_option
    /\ price # Null
    /\ start_date # NoDate
    /\ stepDate >= start_date
    /\ stepDate < (IF end_date # NoDate THEN end_date ELSE maturity_date)

\* The option window test of one step (call and put use the same code).
InWindow(has_option, price, start_date, end_date, maturity_date, stepDate) ==
    /\ has_option
    /\ price # Null
    /\ start_date # NoDate
    /\ stepDate >= start_date
    /\ stepDate <= (IF end_date # NoDate THEN end_date ELSE maturity_date)

can_call(ctx, t) ==
    InWindow(ctx.security.has_call_option, ctx.security.call_price,
             ctx.security.call_start_date, ctx.security.call_end_date,
             ctx.security.maturity_date, ctx.time_grid[t + 1].date)

can_put(ctx, t) ==
    InWindow(ctx.security.has_put_option, ctx.security.put_price,
             ctx.security.put_start_date, ctx.security.put_end_date,
             ctx.security.maturity_date, ctx.time_grid[t + 1].date)

\* Variant: the numerator of q with its terms swapped.
UpProbability_swapped(ctx, t) == RDiv(RSub(ctx.d, ctx.rf_t[t + 1]), RSub(ctx.u, ctx.d))

\* q = (exp(r * dt) - d) / (u - d)
UpProbability(ctx, t) == RDiv(RSub(ctx.rf_t[t + 1], ctx.d), RSub(ctx.u, ctx.d))

\* df_rf = exp(-r * dt)
df_rf(ctx, t) == RDiv(One, ctx.rf_t[t + 1])

\* df_risky = exp(-(r + cs) * dt)
df_risky(ctx, t) == RDiv(One, RMul(ctx.rf_t[t + 1], ctx.cs_t[t + 1]))

\* Variant: conversion flagged with the legs of the continuation kept.
CheckConversion_keep_legs(v, val_convert_opt) ==
    IF RLt(v.V_hold, val_convert_opt)
    THEN [V_hold |-> val_convert_opt, D |-> v.D, E |-> v.E, flag |-> "CONVERT"]
    ELSE v

\* Step 1 of the cascade: voluntary conversion.  v is [V_hold, D, E, flag].
CheckConversion(v, val_convert_opt) ==
    IF RLt(v.V_hold, val_convert_opt)
    THEN [V_hold |-> val_convert_opt, D |-> Zero, E |-> val_convert_opt, flag |-> "CONVERT"]
    ELSE v

\* Variant: the call taken when the holder's value on call is above the
\* holding value.
CheckCall_reversed(v, callable, call_strike, val_convert_opt) ==
    IF callable /\ call_strike # Null
    THEN LET holder_val == RMax(call_strike, val_convert_opt)
         IN  IF RLt(v.V_hold, holder_val)
             THEN IF RLt(call_strike, val_convert_opt)
                  THEN [V_hold |-> holder_val, D |-> Zero, E |-> val_convert_opt,
                        flag |-> "CALLED_FORCE_CONV"]
                  ELSE [V_hold |-> holder_val, D |-> call_strike, E |-> Zero,
                        flag |-> "CALLED"]
             ELSE v
    ELSE v

\* Variant: a called holder is paid the call price, with no right to convert.
CheckCall_strike_only(v, callable, call_strike, val_convert_opt) ==
    IF callable /\ call_strike # Null /\ RLt(call_strike, v.V_hold)
    THEN [V_hold |-> call_strike, D |-> call_strike, E |-> Zero, flag |-> "CALLED"]
    ELSE v

\* Step 2: issuer call.
CheckCall(v, callable, call_strike, val_convert_opt) ==
    IF callable /\ call_strike # Null
    THEN LET holder_val == RMax(call_strike, val_convert_opt)
         IN  IF RLt(holder_val, v.V_hold)
             THEN IF RLt(call_strike, val_convert_opt)
                  THEN [V_hold |-> holder_val, D |-> Zero, E |-> val_convert_opt,
                        flag |-> "CALLED_FORCE_CONV"]
                  ELSE [V_hold |-> holder_val, D |-> call_strike, E |-> Zero,
                        flag |-> "CALLED"]
             ELSE v
    ELSE v

\* Variant: the put taken when its price is below the holding value.
CheckPut_reversed(v, puttable, put_strike) ==
    IF puttable /\ put_strike # Null /\ RLt(put_strike, v.V_hold)
    THEN [V_hold |-> put_strike, D |-> put_strike, E |-> Zero, flag |-> "PUT"]
    ELSE v

\* Step 3: holder put.
CheckPut(v, puttable, put_strike) ==
    IF puttable /\ put_strike # Null /\ RLt(v.V_hold, put_strike)
    THEN [V_hold |-> put_strike, D |-> put_strike, E |-> Zero, flag |-> "PUT"]
    ELSE v

\* Variant: the put applied before the call.
TFNode_call_last(ctx, t, i, up, dn) ==
    LET q == UpProbability(ctx, t)
        E_D == RAdd(RMul(q, up.D), RMul(RSub(One, q), dn.D))
        E_E == RAdd(RMul(q, up.E), RMul(RSub(One, q), dn.E))
        D_cont == RAdd(RMul(E_D, df_risky(ctx, t)), ctx.unit_periodic_cf)
        E_cont == RMul(E_E, df_rf(ctx, t))
        val_convert_opt == RMul(SharePrice(ctx, t, i), getEffectiveConversionRatio(ctx, t))
        v0 == [V_hold |-> RAdd(D_cont, E_cont), D |-> D_cont, E |-> E_cont, flag |-> "HOLD"]
        v1 == CheckConversion(v0, val_convert_opt)
        v2 == CheckPut(v1, can_put(ctx, t), ctx.security.put_price)
        v3 == CheckCall(v2, can_call(ctx, t), ctx.security.call_price, val_convert_opt)
    IN  [D |-> v3.D, E |-> v3.E, flag |-> v3.flag]

\* Node (t, i) of the backward induction from its children up = (t+1, i+1)
\* and dn = (t+1, i).
TFNode(ctx, t, i, up, dn) ==
    LET q == UpProbability(ctx, t)
        E_D == RAdd(RMul(q, up.D), RMul(RSub(One, q), dn.D))
        E_E == RAdd(RMul(q, up.E), RMul(RSub(One, q), dn.E))
        D_cont == RAdd(RMul(E_D, df_risky(ctx, t)), ctx.unit_periodic_cf)
        E_cont == RMul(E_E, df_rf(ctx, t))
        val_convert_opt == RMul(SharePrice(ctx, t, i), getEffectiveConversionRatio(ctx, t))
        v0 == [V_hold |-> RAdd(D_cont, E_cont), D |-> D_cont, E |-> E_cont, flag |-> "HOLD"]
        v1 == CheckConversion(v0, val_convert_opt)
        v2 == CheckCall(v1, can_call(ctx, t), ctx.security.call_price, val_convert_opt)
        v3 == CheckPut(v2, can_put(ctx, t), ctx.security.put_price)
    IN  [D |-> v3.D, E |-> v3.E, flag |-> v3.flag]

\* for (i = 0; i <= N; i++): the terminal row, nodes i .. N.
RECURSIVE TFTerminalRow(_, _)
TFTerminalRow(ctx, i) ==
    IF i > ctx.N THEN <<>> ELSE <<TFTerminalNode(ctx, i)>> \o TFTerminalRow(ctx, i + 1)

\* for (i = 0; i <= t; i++): the nodes i .. t of row t from the finished row
\* next = row t + 1 (next[i + 1] is the code's X[t + 1][i]).
RECURSIVE TFRow(_, _, _, _)
TFRow(ctx, t, i, next) ==
    IF i > t THEN <<>>
    ELSE <<TFNode(ctx, t, i, next[i + 2], next[i + 1])>> \o TFRow(ctx, t, i + 1, next)

\* for (t = N - 1; t >= 0; t--): lat holds the finished rows t+1 .. N (lat[1]
\* is row t + 1, with its t + 2 nodes); row t is put in front.  The length
\* test is the loop invariant: it never fails, and makes row t + 1 complete
\* before row t reads it.
RECURSIVE TFInduction(_, _, _)
TFInduction(ctx, t, lat) ==
    IF t < 0 \/ Len(lat[1]) # t + 2 THEN lat
    ELSE TFInduction(ctx, t - 1, <<TFRow(ctx, t, 0, lat[1])>> \o lat)

\* The filled lattice as a sequence of rows: TFLattice(ctx)[t + 1][i + 1] is
\* the node (t, i).
TFLattice(ctx) == TFInduction(ctx, ctx.N - 1, <<TFTerminalRow(ctx, 0)>>)

(***************************************************************************)
(* Host contract (calculateTF, section 6)                                  *)
(***************************************************************************)
\* for (t_step = 0; t_step < N; t_step++): carries df_accum and host_val_unit.
RECURSIVE HostLoop(_, _, _, _)
HostLoop(ctx, t_step, df_accum, host_acc) ==
    IF t_step < ctx.N
    THEN LET acc == RMul(df_accum, df_risky(ctx, t_step))
         IN  HostLoop(ctx, t_step + 1, acc,
                      RAdd(host_acc, RMul(ctx.unit_periodic_cf, acc)))
    ELSE RAdd(host_acc, RMul(unit_redemption_value(ctx.security), df_accum))

\* Variant: the debt leg of the lattice root taken as the host value.
host_val_unit_debt_leg(ctx) == TFLattice(ctx)[1][1].D

host_val_unit(ctx) == HostLoop(ctx, 0, One, Zero)

(***************************************************************************)
(* Aggregation and result of calculateTF (sections 7 and 8)                *)
(***************************************************************************)
SampleLogSteps == 5

Min(a, b) == IF a < b THEN a ELSE b

\* Variant: the long value returned for either position.
Signed_long_only(position, long_value) == long_value

\* sign = position === "ISSUER" ? -1 : 1, applied to a long value.
Signed(position, long_value) ==
    IF position = "ISSUER" THEN RMul(long_value, Num(-1)) ELSE long_value

\* Variant: the derivative value taken as the whole hybrid value.
deriv_val_unit_gross(hybrid, host) == hybrid

deriv_val_unit(hybrid, host) == RSub(hybrid, host)

\* Unit value scaled to the whole issue: by num_issued_shares per share, by 1 for a CB.
\* Variant: the unit value reported without scaling by the share count.
TotalLong_unit(security, unit_value) == unit_value

TotalLong(security, unit_value) ==
    IF isPerShare(security) THEN RMul(unit_value, security.num_issued_shares) ELSE unit_value

UsedCurveSource(security) ==
    IF security.stepwise_risk_free_rates # <<Null>> THEN "Bootstrapped Curve" ELSE "Flat Rate"

\* The rows pushed by the sampling loops, from (t, i) on, in push order.
RECURSIVE TFNodeLogs(_, _, _, _)
TFNodeLogs(ctx, lat, t, i) ==
    IF t > Min(ctx.N, SampleLogSteps) THEN <<>>
    ELSE IF i > t THEN TFNodeLogs(ctx, lat, t + 1, 0)
    ELSE <<[t |-> t, i |-> i, date |-> ctx.time_grid[t + 1].date,
            S_ti |-> SharePrice(ctx, t, i), D_ti |-> lat[t + 1][i + 1].D, E_ti |-> lat[t + 1][i + 1].E,
            V_ti |-> RAdd(lat[t + 1][i + 1].D, lat[t + 1][i + 1].E), event_flag |-> lat[t + 1][i + 1].flag,
            q_up |-> Zero,
            rf_t |-> IF t < ctx.N THEN ctx.rf_t[t + 1] ELSE One,
            cs_t |-> Zero,
            conversion_price_eff |-> ctx.cp_at_step[t + 1]]>>
         \o TFNodeLogs(ctx, lat, t, i + 1)

Meta(ctx, eff_cp_final) ==
    [dt |-> ctx.dt, u |-> ctx.u, d |-> ctx.d, N |-> ctx.N,
     valuation_date |-> ctx.security.valuation_date,
     maturity_date |-> ctx.security.maturity_date,
     used_curve_source |-> UsedCurveSource(ctx.security),
     eff_cp_final |-> eff_cp_final]

\* The returned PricingResult, with the lattice it was read from.
TFResult(ctx, lat, hybrid_val_unit, total_hybrid_long, total_host_long, total_deriv_long) ==
    [result |->
       [fair_value_total |-> Signed(ctx.security.position, total_hybrid_long),
        fair_value_per_share |-> IF isPerShare(ctx.security)
                                 THEN Signed(ctx.security.position, hybrid_val_unit)
                                 ELSE Null,
        fair_value_host |-> Signed(ctx.security.position, total_host_long),
        fair_value_deriv |-> Signed(ctx.security.position, total_deriv_long),
        fair_value_deriv_asset |->
            RMax(Signed(ctx.security.position, total_deriv_long), Zero),
        fair_value_deriv_liab |->
            RMax(RNeg(Signed(ctx.security.position, total_deriv_long)), Zero),
        eso_val_per_option |-> Null,
        tf_debt_component |-> lat[1][1].D,
        tf_equity_component |-> lat[1][1].E,
        node_logs |-> TFNodeLogs(ctx, lat, 0, 0),
        meta |-> Meta(ctx, ctx.cp_at_step[ctx.N + 1])],
     ctx |-> ctx,
     lattice |-> lat]

\* Section 7: the unit values scaled to the long totals.
TFAggregation(ctx, lat, hybrid_val_unit, host_unit) ==
    TFResult(ctx, lat, hybrid_val_unit,
             TotalLong(ctx.security, hybrid_val_unit),
             TotalLong(ctx.security, host_unit),
             TotalLong(ctx.security, deriv_val_unit(hybrid_val_unit, host_unit)))

\* Sections 3 to 6: the lattice, its root value and the host DCF.
TFValuation(ctx, lat) ==
    TFAggregation(ctx, lat, RAdd(lat[1][1].D, lat[1][1].E), host_val_unit(ctx))

\* Sections 1 and 2: the unit cash flow and the refixing schedule.
TFContext(ctx0) ==
    [ctx0 EXCEPT !.cp_at_step = RefixingSchedule(ctx0.security, ctx0.time_grid, ctx0.N),
                 !.unit_periodic_cf = unit_periodic_cf(ctx0.security, ctx0.dt)]

TFPriced(ctx) == TFValuation(ctx, TFLattice(ctx))

calculateTF(ctx0) == TFPriced(TFContext(ctx0))

(***************************************************************************)
(* ESO lattice (calculateESO)                                              *)
(***************************************************************************)
DefaultEarlyExerciseMultiple == 1000

OrDefault(value, default) == IF value = Null THEN default ELSE value

ESOTerminalNode(ctx, i) ==
    LET payoff == RMax(RSub(SharePrice(ctx, ctx.N, i),
                            OrDefault(ctx.security.strike_price, Zero)), Zero)
    IN  [D |-> Zero, E |-> payoff,
         flag |-> IF RLt(Zero, payoff) THEN "MATURITY_EXERCISE" ELSE "MATURITY_LAPSE"]

\* Variant: an absent vesting end date means vested from the valuation date.
vestingEnd_valuation(security) ==
    IF security.vesting_end_date # NoDate THEN security.vesting_end_date
    ELSE security.valuation_date

vestingEnd(security) ==
    IF security.vesting_end_date # NoDate THEN security.vesting_end_date
    ELSE security.maturity_date

\* Variant: no attrition.
survival_factor_step_none(security) == One

\* survival_factor_step = exp(-employee_exit_rate * dt)
survival_factor_step(security) == RDiv(One, OrDefault(security.employee_exit_rate, One))

\* Variant: early exercise allowed at or below the multiple of the strike.
ESONode_capped(ctx, t, i, up, dn) ==
    LET strike_price == OrDefault(ctx.security.strike_price, Zero)
        early_exercise_multiple == OrDefault(ctx.security.early_exercise_multiple,
                                             Num(DefaultEarlyExerciseMultiple))
        q == UpProbability(ctx, t)
        S_ti == SharePrice(ctx, t, i)
        E_next == RAdd(RMul(q, up.E), RMul(RSub(One, q), dn.E))
        continuation == RMul(E_next, df_rf(ctx, t))
        isVested == ctx.time_grid[t + 1].date >= vestingEnd(ctx.security)
        intrinsic == RMax(RSub(S_ti, strike_price), Zero)
        exercise_allowed == RLe(S_ti, RMul(early_exercise_multiple, strike_price))
        exercised == isVested /\ exercise_allowed /\ RLt(continuation, intrinsic)
        val == IF exercised THEN intrinsic ELSE continuation
    IN  [D |-> Zero, E |-> RMul(val, survival_factor_step(ctx.security)),
         flag |-> IF ~isVested THEN "UNVESTED"
                  ELSE IF exercised THEN "EXERCISE_SUBOPT" ELSE "HOLD"]

\* Node (t, i) of the ESO backward induction from its children.
ESONode(ctx, t, i, up, dn) ==
    LET strike_price == OrDefault(ctx.security.strike_price, Zero)
        early_exercise_multiple == OrDefault(ctx.security.early_exercise_multiple,
                                             Num(DefaultEarlyExerciseMultiple))
        q == UpProbability(ctx, t)
        S_ti == SharePrice(ctx, t, i)
        E_next == RAdd(RMul(q, up.E), RMul(RSub(One, q), dn.E))
        continuation == RMul(E_next, df_rf(ctx, t))
        isVested == ctx.time_grid[t + 1].date >= vestingEnd(ctx.security)
        intrinsic == RMax(RSub(S_ti, strike_price), Zero)
        exercise_allowed == RLe(RMul(early_exercise_multiple, strike_price), S_ti)
        exercised == isVested /\ exercise_allowed /\ RLt(continuation, intrinsic)
        val == IF exercised THEN intrinsic ELSE continuation
    IN  [D |-> Zero, E |-> RMul(val, survival_factor_step(ctx.security)),
         flag |-> IF ~isVested THEN "UNVESTED"
                  ELSE IF exercised THEN "EXERCISE_SUBOPT" ELSE "HOLD"]

RECURSIVE ESOTerminalRow(_, _)
ESOTerminalRow(ctx, i) ==
    IF i > ctx.N THEN <<>> ELSE <<ESOTerminalNode(ctx, i)>> \o ESOTerminalRow(ctx, i + 1)

RECURSIVE ESORow(_, _, _, _)
ESORow(ctx, t, i, next) ==
    IF i > t THEN <<>>
    ELSE <<ESONode(ctx, t, i, next[i + 2], next[i + 1])>> \o ESORow(ctx, t, i + 1, next)

\* for (t = N - 1; t >= 0; t--), as in TFInduction.
RECURSIVE ESOInduction(_, _, _)
ESOInduction(ctx, t, lat) ==
    IF t < 0 \/ Len(lat[1]) # t + 2 THEN lat
    ELSE ESOInduction(ctx, t - 1, <<ESORow(ctx, t, 0, lat[1])>> \o lat)

\* ESOLattice(ctx)[t + 1][i + 1] is the node (t, i).
ESOLattice(ctx) == ESOInduction(ctx, ctx.N - 1, <<ESOTerminalRow(ctx, 0)>>)

calculateESO(ctx) ==
    LET sec == ctx.security
        lat == ESOLattice(ctx)
        V_per_option_long == lat[1][1].E
        V_total_long == RMul(V_per_option_long, OrDefault(sec.num_options, One))
        V_total == Signed(sec.position, V_total_long)
        V_per_opt == Signed(sec.position, V_per_option_long)
    IN  [result |->
           [fair_value_total |-> V_total,
            fair_value_per_share |-> V_per_opt,
            fair_value_host |-> Zero,
            fair_value_deriv |-> V_total,
            fair_value_deriv_asset |-> IF RLt(Zero, V_total) THEN V_total ELSE Zero,
            fair_value_deriv_liab |-> IF RLt(V_total, Zero) THEN RNeg(V_total) ELSE Zero,
            eso_val_per_option |-> V_per_opt,
            tf_debt_component |-> Zero,
            tf_equity_component |-> V_per_option_long,
            node_logs |-> <<>>,
            meta |-> Meta(ctx, Null)],
         ctx |-> ctx,
         lattice |-> lat]

(***************************************************************************)
(* runPricingEngine                                                        *)
(***************************************************************************)
\* The all-zero result of the N <= 0 branch.
ZeroResult(security) ==
    [fair_value_total |-> Zero, fair_value_per_share |-> Null, fair_value_host |-> Zero,
     fair_value_deriv |-> Zero, fair_value_deriv_asset |-> Zero,
     fair_value_deriv_liab |-> Zero, eso_val_per_option |-> Null,
     tf_debt_component |-> Zero, tf_equity_component |-> Zero, node_logs |-> <<>>,
     meta |-> [dt |-> Zero, u |-> Zero, d |-> Zero, N |-> 0,
               valuation_date |-> security.valuation_date,
               maturity_date |-> security.maturity_date,
               used_curve_source |-> "", eff_cp_final |-> Null]]

\* Variant: an array of exactly N entries treated as too short.
StepRates_strict(stepwise, flat, N) ==
    IF stepwise # <<Null>> /\ Len(stepwise) > N
    THEN SubSeq(stepwise, 1, N)
    ELSE [t \in 1..N |-> flat]

\* A stepwise array of length >= N is used truncated, otherwise the flat rate fills N entries.
StepRates(stepwise, flat, N) ==
    IF stepwise # <<Null>> /\ Len(stepwise) >= N
    THEN SubSeq(stepwise, 1, N)
    ELSE [t \in 1..N |-> flat]

\* N = time_grid.length - 1
GridSteps(time_grid) == Len(time_grid) - 1

\* What runPricingEngine hands to calculateESO or calculateTF.
EngineArgs(schema, time_grid, N) ==
    LET T == time_grid[N + 1].t_years
        dt == RDiv(T, Num(N))
        u == schema.volatility
    IN  [security |-> schema, time_grid |-> time_grid,
         rf_t |-> StepRates(schema.stepwise_risk_free_rates, schema.risk_free_rate, N),
         cs_t |-> StepRates(schema.stepwise_credit_spreads, schema.credit_spread, N),
         dt |-> dt, u |-> u, d |-> RDiv(One, u), N |-> N,
         cp_at_step |-> <<>>, unit_periodic_cf |-> Zero]

\* runPricingEngine, with the lattice the result was read from.
Pricing(schema) ==
    LET time_grid == generateTimeGrid(schema.valuation_date, schema.maturity_date)
        N == GridSteps(time_grid)
    IN  IF N <= 0
        THEN [result |-> ZeroResult(schema), ctx |-> [N |-> 0], lattice |-> <<>>]
        ELSE IF schema.security_type = "ESO"
             THEN calculateESO(EngineArgs(schema, time_grid, N))
             ELSE calculateTF(EngineArgs(schema, time_grid, N))

runPricingEngine(security) == Pricing(security).result

(***************************************************************************)
(* Deal aggregation (calculateDeal), with marketConfig.auto off as it is   *)
(* after construction: no stepwise arrays are built                        *)
(***************************************************************************)
\* {...base, ...over} for the fields of base.
Merge(base, over) == [k \in DOMAIN base |-> IF k \in DOMAIN over THEN over[k] ELSE base[k]]

\* A maturity string that new Date() cannot parse.
InvalidDate == -2

\* matDate.toISOString() raises a RangeError on an invalid date.
Throws(security) == security.maturity_date = InvalidDate

\* const fullSec = {...secDef, valuation_date: deal.valuation_date, ...}
FullSchema(dl, secDef) ==
    Merge(secDef, [valuation_date |-> dl.valuation_date,
                   share_price_current |-> dl.share_price_current,
                   volatility |-> dl.volatility,
                   risk_free_rate |-> dl.risk_free_rate,
                   credit_spread |-> dl.credit_spread,
                   stepwise_risk_free_rates |-> <<Null>>,
                   stepwise_credit_spreads |-> <<Null>>])

\* securityResults.push({...res, id, name, security_type, position})
SecurityResult(r, secDef) ==
    [id |-> secDef.id, name |-> secDef.name, security_type |-> secDef.security_type,
     position |-> secDef.position] @@ r

\* Variant: the loop ends at the first security that throws.
RECURSIVE PriceSecurities_abort(_, _)
PriceSecurities_abort(dl, k) ==
    IF k > Len(dl.securities) THEN <<>>
    ELSE LET secDef == dl.securities[k]
             schema == FullSchema(dl, secDef)
         IN  IF Throws(schema) THEN <<>>
             ELSE <<SecurityResult(runPricingEngine(schema), secDef)>>
                  \o PriceSecurities_abort(dl, k + 1)

\* for (const secDef of deal.securities) try { ... } catch { }: the results
\* pushed from security k on.
RECURSIVE PriceSecurities(_, _)
PriceSecurities(dl, k) ==
    IF k > Len(dl.securities) THEN <<>>
    ELSE LET secDef == dl.securities[k]
             schema == FullSchema(dl, secDef)
         IN  (IF Throws(schema) THEN <<>>
              ELSE <<SecurityResult(runPricingEngine(schema), secDef)>>)
             \o PriceSecurities(dl, k + 1)

AggZero ==
    [total |-> Zero, host |-> Zero, deriv |-> Zero, asset |-> Zero, liab |-> Zero,
     deriv_asset |-> Zero, deriv_liab |-> Zero]

\* Variant: the liability leg accumulates the signed total.
AggStep_signed_liab(acc, curr) ==
    [total |-> RAdd(acc.total, curr.fair_value_total),
     host |-> RAdd(acc.host, curr.fair_value_host),
     deriv |-> RAdd(acc.deriv, curr.fair_value_deriv),
     asset |-> RAdd(acc.asset, IF RLt(Zero, curr.fair_value_total)
                               THEN curr.fair_value_total ELSE Zero),
     liab |-> RAdd(acc.liab, IF RLt(curr.fair_value_total, Zero)
                             THEN curr.fair_value_total ELSE Zero),
     deriv_asset |-> RAdd(acc.deriv_asset, curr.fair_value_deriv_asset),
     deriv_liab |-> RAdd(acc.deriv_liab, curr.fair_value_deriv_liab)]

\* The reducer of securityResults.reduce.
AggStep(acc, curr) ==
    [total |-> RAdd(acc.total, curr.fair_value_total),
     host |-> RAdd(acc.host, curr.fair_value_host),
     deriv |-> RAdd(acc.deriv, curr.fair_value_deriv),
     asset |-> RAdd(acc.asset, IF RLt(Zero, curr.fair_value_total)
                               THEN curr.fair_value_total ELSE Zero),
     liab |-> RAdd(acc.liab, IF RLt(curr.fair_value_total, Zero)
                             THEN RNeg(curr.fair_value_total) ELSE Zero),
     deriv_asset |-> RAdd(acc.deriv_asset, curr.fair_value_deriv_asset),
     deriv_liab |-> RAdd(acc.deriv_liab, curr.fair_value_deriv_liab)]

RECURSIVE Reduce(_, _, _)
Reduce(results, k, acc) ==
    IF k > Len(results) THEN acc ELSE Reduce(results, k + 1, AggStep(acc, results[k]))

\* The value passed to setDealResult.
DealResultOf(dl, results) ==
    LET agg == Reduce(results, 1, AggZero)
    IN  [deal_total_value |-> agg.total,
         deal_price_per_share |-> IF RLt(Zero, dl.underlying_num_shares)
                                  THEN RDiv(agg.total, dl.underlying_num_shares)
                                  ELSE Zero,
         deal_total_host |-> agg.host,
         deal_total_deriv |-> agg.deriv,
         deal_total_asset |-> agg.asset,
         deal_total_liab |-> agg.liab,
         deal_total_deriv_asset |-> agg.deriv_asset,
         deal_total_deriv_liab |-> agg.deriv_liab,
         results |-> results]

(***************************************************************************)
(* Yield curve interpolation                                               *)
(***************************************************************************)
\* Variant: the yield of the left knot, no interpolation.
interpolate_left(x, x0, y0, x1, y1) == y0

\* Linear interpolation helper.
interpolate(x, x0, y0, x1, y1) ==
    IF x1 = x0 THEN y0
    ELSE RAdd(y0, RDiv(RMul(RSub(x, x0), RSub(y1, y0)), RSub(x1, x0)))

\* for (i = 0; i < curve.length - 1; i++): the first segment holding the
\* tenor, or the first yield when none does. points[i + 1] is the source's curve[i].
RECURSIVE FindSegment(_, _, _)
FindSegment(points, tenor, i) ==
    IF i >= Len(points) - 1 THEN points[1].yield
    ELSE IF RLe(points[i + 1].tenor_years, tenor) /\ RLe(tenor, points[i + 2].tenor_years)
         THEN interpolate(tenor, points[i + 1].tenor_years, points[i + 1].yield,
                          points[i + 2].tenor_years, points[i + 2].yield)
         ELSE FindSegment(points, tenor, i + 1)

getInterpolatedYield(points, tenor) ==
    IF RLe(tenor, points[1].tenor_years) THEN points[1].yield
    ELSE IF RLe(points[Len(points)].tenor_years, tenor) THEN points[Len(points)].yield
    ELSE FindSegment(points, tenor, 0)

(***************************************************************************)
(* Inputs                                                                  *)
(***************************************************************************)
MaxWeeks == 2

MaxEvents == 2

\* The default security of the application, on a small money scale, valued on day 0.
BaseSecurity ==
    [security_type |-> "RCPS", position |-> "HOLDER",
     total_issue_price |-> Num(120), num_issued_shares |-> Num(2),
     share_price_current |-> Num(40),
     valuation_date |-> 0, maturity_date |-> 14,
     coupon_rate |-> Zero, dividend_rate |-> Zero, repayment_premium_rate |-> Rat(1, 20),
     conversion_price |-> Num(40), conversion_ratio |-> Null,
     anti_dilution_type |-> "NONE", refixing_floor_price |-> Null, reset_events |-> <<>>,
     participation_type |-> "NON_PARTICIPATING", participation_cap_multiple |-> Num(2),
     volatility |-> Num(2), risk_free_rate |-> One, credit_spread |-> One,
     stepwise_risk_free_rates |-> <<Null>>, stepwise_credit_spreads |-> <<Null>>,
     has_call_option |-> FALSE, call_price |-> Null,
     call_start_date |-> NoDate, call_end_date |-> NoDate,
     has_put_option |-> FALSE, put_price |-> Null,
     put_start_date |-> NoDate, put_end_date |-> NoDate,
     num_options |-> Num(3), strike_price |-> Num(40), vesting_end_date |-> NoDate,
     employee_exit_rate |-> One, early_exercise_multiple |-> Num(2)]

\* Maturities: on the valuation date, mid-week and on week boundaries.
MaturityDates == {0} \cup {7 * k : k \in 1..MaxWeeks} \cup {7 * k - 4 : k \in 1..MaxWeeks}

SpotPrices == {Num(10), Num(40), Num(160)}

CouponRates == {Zero, Rat(73, 20)}

\* Coupon rates for a security priced on the 0.0027-year step.
MaturedCouponRates == {Zero, Rat(100, 27)}

\* Pairs of a maturity date and a coupon rate.
MaturityCoupons ==
    {<<mat, c>> : mat \in MaturityDates \ {0}, c \in CouponRates}
    \cup {<<0, c>> : c \in MaturedCouponRates}

\* exp(r * dt) for a zero and a positive rate; both keep 0 <= q <= 1 with u = 2.
RateFactors == {One, Rat(5, 4)}

(***************************************************************************)
(* One call of runPricingEngine                                            *)
(***************************************************************************)
NoLattice == <<>>

\* No curve lookup in progress.
NoCurve == curve = <<>> /\ targetTenor = Null /\ rf_y = Null

\* No lattice loop in progress.
NoInduction == cursor = <<>> /\ written = <<>>

Idle ==
    /\ deal = [securities |-> <<>>]
    /\ securityResults = <<>>
    /\ dealResult = [results |-> <<>>]
    /\ NoCurve
    /\ NoInduction

LatticeOf(lat, N, field) ==
    IF lat = <<>> THEN NoLattice
    ELSE [t \in 0..N |-> [i \in 0..t |-> lat[t + 1][i + 1][field]]]

SharePrices(p) ==
    IF p.lattice = <<>> THEN NoLattice
    ELSE [t \in 0..p.ctx.N |-> [i \in 0..t |-> SharePrice(p.ctx, t, i)]]

\* The engine's writes for one security.
Priced(p) ==
    /\ res' = p.result
    /\ S' = SharePrices(p)
    /\ D' = IF p.lattice # <<>> /\ p.ctx.security.security_type # "ESO"
            THEN LatticeOf(p.lattice, p.ctx.N, "D") ELSE NoLattice
    /\ E' = LatticeOf(p.lattice, p.ctx.N, "E")
    /\ Flags' = LatticeOf(p.lattice, p.ctx.N, "flag")
    /\ cp_at_step' = IF p.lattice # <<>> /\ p.ctx.security.security_type # "ESO"
                     THEN p.ctx.cp_at_step ELSE <<>>

RunPricingEngine ==
    /\ pc = "ready"
    /\ LET p == Pricing(fullSec) IN Priced(p)
    /\ pc' = "priced"
    /\ UNCHANGED <<fullSec, deal, securityResults, dealResult, curve, targetTenor, rf_y,
                   cursor, written>>

InitEngine(securities) ==
    /\ pc = "ready"
    /\ fullSec \in securities
    /\ res = ZeroResult(fullSec)
    /\ S = NoLattice /\ D = NoLattice /\ E = NoLattice /\ Flags = NoLattice
    /\ cp_at_step = <<>>
    /\ Idle

NextEngine == RunPricingEngine

\* Every security type, position, spot, maturity, coupon and flat rate pair.
GeneralSecurities ==
    {Merge(BaseSecurity,
           [security_type |-> ty, position |-> pos, share_price_current |-> s0,
            maturity_date |-> mc[1], coupon_rate |-> mc[2], num_issued_shares |-> n,
            risk_free_rate |-> rf, credit_spread |-> cs, participation_type |-> part]) :
        ty \in {"RCPS", "CB", "CPS", "ESO"}, pos \in {"HOLDER", "ISSUER"},
        s0 \in SpotPrices, mc \in MaturityCoupons,
        n \in {Num(1), Num(2)}, rf \in RateFactors, cs \in RateFactors,
        part \in {"NON_PARTICIPATING", "PARTICIPATING"}}

Init == InitEngine(GeneralSecurities)

Next == NextEngine

Spec == Init /\ [][Next]_vars

(***************************************************************************)
(* Refixing: anti-dilution policies, floors and reset-event lists          *)
(***************************************************************************)
\* Event dates: on the valuation date and inside the first week.
ResetDates == {0, 5}

\* New issue prices below and above the initial conversion price of 40.
ResetPrices == {Num(10), Num(30), Num(60)}

\* <<shares_outstanding_before_reset, issue_shares_new>>; a missing share
\* count takes the fallback.
ShareCounts == {<<Null, Num(FallbackSharesOutstanding)>>, <<Num(3), Num(1)>>}

ResetEvents ==
    {[event_date |-> dt, issue_price_new |-> p, issue_shares_new |-> sc[2],
      shares_outstanding_before_reset |-> sc[1]] :
        dt \in ResetDates, p \in ResetPrices, sc \in ShareCounts}

\* Event lists in any order, sorted or not.
EventLists == UNION {[1..n -> ResetEvents] : n \in 0..MaxEvents}

\* No floor, a floor below and a floor above the initial conversion price.
Floors == {Null, Num(20), Num(50)}

\* Maturity 3 has grid dates 0 and 3, maturity 14 has 0, 7 and 14.
RefixingSecurities ==
    {Merge(BaseSecurity,
           [anti_dilution_type |-> ad, refixing_floor_price |-> floor,
            reset_events |-> evts, maturity_date |-> mat]) :
        ad \in {"NONE", "FULL_RATCHET", "WA_DOWN_ONLY"}, floor \in Floors,
        evts \in EventLists, mat \in {3, 14}}

InitRefixing == InitEngine(RefixingSecurities)

SpecRefixing == InitRefixing /\ [][NextEngine]_vars

(***************************************************************************)
(* Options and rates: call and put windows, step rates inside and outside  *)
(* the band d <= exp(r * dt) <= u                                          *)
(***************************************************************************)
OptionSpots == {Num(10), Num(40), Num(80)}

\* exp(r * dt): below d = 1/2, inside the band, and above u = 2.
WideRateFactors == {Rat(1, 4), One, Rat(5, 2)}

\* <<stepwise_risk_free_rates, stepwise_credit_spreads>>: absent, or one
\* entry per step for every grid of the model.
Curves ==
    {<<<<Null>>, <<Null>>>>,
     <<[t \in 1..(MaxWeeks + 1) |-> IF t = 2 THEN One ELSE Rat(5, 4)],
       [t \in 1..(MaxWeeks + 1) |-> IF t = 2 THEN Rat(5, 4) ELSE One]>>}

\* <<has_put_option, put_price, put_start_date>>
Puts == {<<FALSE, Null, NoDate>>, <<TRUE, Num(70), 0>>, <<TRUE, Num(150), 0>>,
         <<TRUE, Num(150), 7>>}

\* <<has_call_option, call_price, call_start_date>>
Calls == {<<FALSE, Null, NoDate>>, <<TRUE, Num(130), 0>>, <<TRUE, Num(130), 7>>}

OptionSecurities ==
    {Merge(BaseSecurity,
           [security_type |-> ty, share_price_current |-> s0,
            maturity_date |-> mc[1], coupon_rate |-> mc[2],
            risk_free_rate |-> rf, credit_spread |-> cs,
            stepwise_risk_free_rates |-> cv[1], stepwise_credit_spreads |-> cv[2],
            has_put_option |-> put[1], put_price |-> put[2], put_start_date |-> put[3],
            has_call_option |-> call[1], call_price |-> call[2],
            call_start_date |-> call[3]]) :
        ty \in {"RCPS", "CB"}, s0 \in OptionSpots, mc \in MaturityCoupons,
        rf \in WideRateFactors, cs \in RateFactors, cv \in Curves,
        put \in Puts, call \in Calls}

InitOptions == InitEngine(OptionSecurities)

SpecOptions == InitOptions /\ [][NextEngine]_vars

(***************************************************************************)
(* One run of calculateDeal                                                *)
(***************************************************************************)
MaxSecurities == 2

SecurityDefs ==
    {Merge(BaseSecurity,
           [security_type |-> ty, position |-> pos, maturity_date |-> mat]) @@
     [id |-> 0, name |-> "Security"] :
        ty \in {"RCPS", "CB", "ESO"}, pos \in {"HOLDER", "ISSUER"},
        mat \in {14, InvalidDate}}

\* Deals of 0 .. MaxSecurities securities; a security's id is its place in the deal.
Deals ==
    {[valuation_date |-> 0, share_price_current |-> s0, volatility |-> Num(2),
      risk_free_rate |-> One, credit_spread |-> Rat(5, 4),
      underlying_num_shares |-> shares,
      securities |-> [k \in DOMAIN secs |-> [secs[k] EXCEPT !.id = k]]] :
        s0 \in SpotPrices, shares \in {Zero, Num(4)},
        secs \in UNION {[1..n -> SecurityDefs] : n \in 0..MaxSecurities}}

\* The effect: securityResults is filled, aggregated and handed to setDealResult.
CalculateDeal ==
    /\ pc = "deal"
    /\ securityResults' = PriceSecurities(deal, 1)
    /\ dealResult' = DealResultOf(deal, securityResults')
    /\ pc' = "done"
    /\ UNCHANGED <<fullSec, res, S, D, E, Flags, cp_at_step, deal, curve, targetTenor, rf_y,
                   cursor, written>>

InitDeal ==
    /\ pc = "deal"
    /\ deal \in Deals
    /\ securityResults = <<>>
    /\ dealResult = [results |-> <<>>]
    /\ fullSec = BaseSecurity
    /\ res = ZeroResult(BaseSecurity)
    /\ S = NoLattice /\ D = NoLattice /\ E = NoLattice /\ Flags = NoLattice
    /\ cp_at_step = <<>>
    /\ NoCurve
    /\ NoInduction

NextDeal == CalculateDeal

SpecDeal == InitDeal /\ [][NextDeal]_vars

(***************************************************************************)
(* One call of getInterpolatedYield                                        *)
(***************************************************************************)
MaxKnots == 3

\* Tenors of the knots, in years.
KnotTenors == {Num(1), Num(2), Num(4)}

\* Yields, in percent.
KnotYields == {Num(1), Num(2), Num(3)}

YieldPoints == {[tenor_years |-> x, yield |-> y] : x \in KnotTenors, y \in KnotYields}

\* Curves of 1 .. MaxKnots points in ascending tenor order, repeated tenors included.
YieldCurves ==
    {c \in UNION {[1..n -> YieldPoints] : n \in 1..MaxKnots} :
        \A k \in 1..(Len(c) - 1) : RLe(c[k].tenor_years, c[k + 1].tenor_years)}

\* Tenors below, at, between and above the knots.
TargetTenors == {Zero, Num(1), Rat(3, 2), Num(2), Rat(5, 2), Num(3), Num(4), Num(5)}

GetInterpolatedYield ==
    /\ pc = "curve"
    /\ rf_y' = getInterpolatedYield(curve, targetTenor)
    /\ pc' = "interpolated"
    /\ UNCHANGED <<fullSec, res, S, D, E, Flags, cp_at_step, deal, securityResults,
                   dealResult, curve, targetTenor, cursor, written>>

InitCurve ==
    /\ pc = "curve"
    /\ curve \in YieldCurves
    /\ targetTenor \in TargetTenors
    /\ rf_y = Null
    /\ fullSec = BaseSecurity
    /\ res = ZeroResult(BaseSecurity)
    /\ S = NoLattice /\ D = NoLattice /\ E = NoLattice /\ Flags = NoLattice
    /\ cp_at_step = <<>>
    /\ deal = [securities |-> <<>>]
    /\ securityResults = <<>>
    /\ dealResult = [results |-> <<>>]
    /\ NoInduction

NextCurve == GetInterpolatedYield

SpecCurve == InitCurve /\ [][NextCurve]_vars

(***************************************************************************)
(* Properties of one call of runPricingEngine                              *)
(***************************************************************************)
IsTF(sec) == sec.security_type # "ESO"

Flip(position) == IF position = "ISSUER" THEN "HOLDER" ELSE "ISSUER"

\* C1: every priced security, of any type and position, has
\* fair_value_total = fair_value_host + fair_value_deriv.
C1_TotalIsHostPlusDeriv ==
    pc = "priced" =>
        res.fair_value_total = RAdd(res.fair_value_host, res.fair_value_deriv)

C1_Witness ==
    /\ pc = "priced"
    /\ IsTF(fullSec)
    /\ fullSec.position = "ISSUER"
    /\ RLt(res.fair_value_host, Zero)
    /\ RLt(res.fair_value_deriv, Zero)

\* C5: the same security priced for the other position has the negated
\* total, host, derivative and per-share values, and the same lattice root
\* legs D[0][0] and E[0][0].
C5_PositionNegates ==
    pc = "priced" =>
        LET other == runPricingEngine([fullSec EXCEPT !.position = Flip(fullSec.position)])
        IN  /\ other.fair_value_total = RNeg(res.fair_value_total)
            /\ other.fair_value_host = RNeg(res.fair_value_host)
            /\ other.fair_value_deriv = RNeg(res.fair_value_deriv)
            /\ (res.fair_value_per_share # Null =>
                    other.fair_value_per_share = RNeg(res.fair_value_per_share))
            /\ (res.fair_value_per_share = Null <=> other.fair_value_per_share = Null)
            /\ other.tf_debt_component = res.tf_debt_component
            /\ other.tf_equity_component = res.tf_equity_component

C5_Witness ==
    /\ pc = "priced"
    /\ fullSec.position = "ISSUER"
    /\ RLt(res.fair_value_total, Zero)
    /\ RLt(Zero, runPricingEngine([fullSec EXCEPT !.position = "HOLDER"]).fair_value_total)
    /\ res.fair_value_per_share # Null
    /\ RLt(Zero, res.tf_debt_component)
    /\ RLt(Zero, res.tf_equity_component)

IsZeroResult(r) ==
    /\ r.fair_value_total = Zero /\ r.fair_value_host = Zero /\ r.fair_value_deriv = Zero
    /\ r.fair_value_deriv_asset = Zero /\ r.fair_value_deriv_liab = Zero
    /\ r.tf_debt_component = Zero /\ r.tf_equity_component = Zero
    /\ r.node_logs = <<>>
    /\ r.meta.N = 0

Matured(sec) == sec.maturity_date <= sec.valuation_date

\* C7 as stated: a maturity on or before the valuation date returns the
\* all-zero result of the N = 0 branch.
C7_MaturedIsAllZero ==
    (pc = "priced" /\ Matured(fullSec)) => IsZeroResult(res)

\* C7 as amended: a maturity on or before the valuation date is priced on the
\* two-point grid: N = 1, dt = 0.0027, both grid dates are the valuation
\* date, the N <= 0 branch is not taken, and a TF security logs its three nodes.
C7_MaturedIsOneStep ==
    (pc = "priced" /\ Matured(fullSec)) =>
        /\ res.meta.N = 1
        /\ res.meta.dt = Rat(27, 10000)
        /\ DOMAIN E = 0..1
        /\ ~IsZeroResult(res)
        /\ (IsTF(fullSec) =>
                /\ Len(res.node_logs) = 3
                /\ \A k \in 1..3 : res.node_logs[k].date = fullSec.valuation_date)

C7_Witness ==
    /\ pc = "priced"
    /\ Matured(fullSec)
    /\ IsTF(fullSec)
    /\ RLt(Zero, res.fair_value_total)
    /\ res.meta.N = 1

\* Securities that differ from sec only in the spot and in inputs that reach
\* the lattice alone.
LatticeOnlyVariants(sec) ==
    {Merge(sec, [share_price_current |-> s0]) : s0 \in SpotPrices}
    \cup {Merge(sec, [conversion_price |-> Num(20)]),
          Merge(sec, [conversion_ratio |-> Num(4)]),
          Merge(sec, [participation_type |-> "PARTICIPATING",
                      participation_cap_multiple |-> Null]),
          Merge(sec, [anti_dilution_type |-> "FULL_RATCHET",
                      refixing_floor_price |-> Num(10),
                      reset_events |-> <<[event_date |-> 0, issue_price_new |-> Num(5),
                                          issue_shares_new |-> Num(1000),
                                          shares_outstanding_before_reset |-> Null]>>]),
          Merge(sec, [has_call_option |-> TRUE, call_price |-> Num(50),
                      call_start_date |-> 0]),
          Merge(sec, [has_put_option |-> TRUE, put_price |-> Num(200),
                      put_start_date |-> 0])}

\* C9: fair_value_host of a TF security is the same for every security that
\* differs only in the spot, conversion terms, refixing, participation, call
\* or put terms.
C9_HostIgnoresLattice ==
    (pc = "priced" /\ IsTF(fullSec)) =>
        \A other \in LatticeOnlyVariants(fullSec) :
            runPricingEngine(other).fair_value_host = res.fair_value_host

C9_Witness ==
    /\ pc = "priced"
    /\ IsTF(fullSec)
    /\ res.fair_value_host # Zero
    /\ \E other \in LatticeOnlyVariants(fullSec) :
           /\ other.share_price_current # fullSec.share_price_current
           /\ runPricingEngine(other).fair_value_total # res.fair_value_total
           /\ runPricingEngine(other).fair_value_host = res.fair_value_host

(***************************************************************************)
(* Properties of the refixing schedule                                     *)
(***************************************************************************)
\* cp_at_step[t + 1] is the code's cp_at_step[t].
NonIncreasing(cp) == \A t \in 1..(Len(cp) - 1) : RLe(cp[t + 1], cp[t])

FloorSet(sec) == Truthy(sec.refixing_floor_price)

FloorWithinInitial(sec) ==
    FloorSet(sec) => RLe(sec.refixing_floor_price, sec.conversion_price)

\* C3 as stated: for every policy, floor, initial conversion price and event
\* list, cp_eff[t+1] <= cp_eff[t] for all 0 <= t < N.
C3_ScheduleNonIncreasing ==
    (pc = "priced" /\ IsTF(fullSec)) => NonIncreasing(cp_at_step)

\* C3 as amended: when the floor, if set, is at most the initial conversion
\* price, cp_eff[t+1] <= cp_eff[t] for all 0 <= t < N and cp_eff[0] is at
\* most the initial conversion price.
C3_NonIncreasingUnderLowFloor ==
    (pc = "priced" /\ IsTF(fullSec) /\ FloorWithinInitial(fullSec)) =>
        /\ NonIncreasing(cp_at_step)
        /\ RLe(cp_at_step[1], fullSec.conversion_price)

C3_Witness ==
    /\ pc = "priced"
    /\ FloorSet(fullSec) /\ FloorWithinInitial(fullSec)
    /\ Len(cp_at_step) = 3
    /\ RLt(cp_at_step[2], cp_at_step[1])
    /\ \E k \in 1..Len(fullSec.reset_events) :
           RLt(fullSec.conversion_price, fullSec.reset_events[k].issue_price_new)

AtLeastFloor(sec, cp) == \A t \in 1..Len(cp) : RLe(sec.refixing_floor_price, cp[t])

\* C4 as stated: whenever a floor is set, cp_eff[t] >= floor at every step,
\* for every policy and every event list.
C4_ScheduleAtLeastFloor ==
    (pc = "priced" /\ IsTF(fullSec) /\ FloorSet(fullSec)) =>
        AtLeastFloor(fullSec, cp_at_step)

\* C4 as amended: whenever a floor is set that is at most the initial
\* conversion price, cp_eff[t] >= floor at every step.
C4_AtLeastLowFloor ==
    (pc = "priced" /\ IsTF(fullSec) /\ FloorSet(fullSec) /\ FloorWithinInitial(fullSec)) =>
        AtLeastFloor(fullSec, cp_at_step)

C4_Witness ==
    /\ pc = "priced"
    /\ FloorSet(fullSec) /\ FloorWithinInitial(fullSec)
    /\ cp_at_step[Len(cp_at_step)] = fullSec.refixing_floor_price
    /\ RLt(fullSec.refixing_floor_price, cp_at_step[1])
    /\ \E k \in 1..Len(fullSec.reset_events) :
           RLt(fullSec.reset_events[k].issue_price_new, fullSec.refixing_floor_price)

AsCB(sec) == [sec EXCEPT !.security_type = "CB"]

\* C12: an RCPS with no call, no put, no conversion-ratio override, zero
\* dividend rate and non-participating terms has the fair_value_total,
\* fair_value_host and fair_value_deriv of the CB with the same total issue
\* price and otherwise identical terms, whatever its share count.
C12_PerShareDuality ==
    (/\ pc = "priced" /\ fullSec.security_type = "RCPS"
     /\ ~fullSec.has_call_option /\ ~fullSec.has_put_option
     /\ fullSec.conversion_ratio = Null /\ fullSec.dividend_rate = Zero
     /\ fullSec.participation_type = "NON_PARTICIPATING") =>
        /\ res.fair_value_total = runPricingEngine(AsCB(fullSec)).fair_value_total
        /\ res.fair_value_host = runPricingEngine(AsCB(fullSec)).fair_value_host
        /\ res.fair_value_deriv = runPricingEngine(AsCB(fullSec)).fair_value_deriv

C12_Witness ==
    /\ pc = "priced" /\ fullSec.security_type = "RCPS"
    /\ fullSec.participation_type = "NON_PARTICIPATING"
    /\ fullSec.num_issued_shares = Num(2)
    /\ res.meta.N = 2
    /\ RLt(Zero, fullSec.coupon_rate)
    /\ fullSec.credit_spread # One
    /\ Flags[1][1] = "CONVERT" /\ Flags[0][0] = "HOLD"
    /\ res.fair_value_deriv # Zero
    /\ res.fair_value_total = runPricingEngine(AsCB(fullSec)).fair_value_total

(***************************************************************************)
(* Stepwise rate arrays: each leg absent, or of 0 .. MaxWeeks + 1 entries  *)
(***************************************************************************)
RateArrays ==
    {<<Null>>} \cup {[t \in 1..k |-> IF t % 2 = 1 THEN Rat(5, 4) ELSE One] :
                        k \in 0..(MaxWeeks + 1)}

RateSecurities ==
    {Merge(BaseSecurity,
           [security_type |-> ty, maturity_date |-> mat,
            risk_free_rate |-> rf, credit_spread |-> cs,
            stepwise_risk_free_rates |-> rfs, stepwise_credit_spreads |-> css]) :
        ty \in {"RCPS", "ESO"}, mat \in MaturityDates,
        rf \in RateFactors, cs \in RateFactors,
        rfs \in RateArrays, css \in RateArrays}

InitRates == InitEngine(RateSecurities)

SpecRates == InitRates /\ [][NextEngine]_vars

\* One leg as the engine is stated to choose it.
LegSelected(used, stepwise, flat, N) ==
    /\ Len(used) = N
    /\ IF stepwise # <<Null>> /\ Len(stepwise) >= N
       THEN \A t \in 1..N : used[t] = stepwise[t]
       ELSE \A t \in 1..N : used[t] = flat

\* C13: each of rf_t and cs_t has exactly N entries and is, independently of
\* the other, the first N entries of its stepwise array when that array is
\* present with at least N entries, and N copies of the flat rate otherwise.
C13_StepwiseSelection ==
    (pc = "priced" /\ res.meta.N >= 1) =>
        /\ LegSelected(Pricing(fullSec).ctx.rf_t, fullSec.stepwise_risk_free_rates,
                       fullSec.risk_free_rate, res.meta.N)
        /\ LegSelected(Pricing(fullSec).ctx.cs_t, fullSec.stepwise_credit_spreads,
                       fullSec.credit_spread, res.meta.N)

C13_Witness ==
    /\ pc = "priced" /\ res.meta.N = 2
    /\ Len(fullSec.stepwise_risk_free_rates) = 2
    /\ Pricing(fullSec).ctx.rf_t = <<Rat(5, 4), One>>
    /\ fullSec.risk_free_rate = One
    /\ Len(fullSec.stepwise_credit_spreads) = 1
    /\ fullSec.stepwise_credit_spreads # <<Null>>
    /\ fullSec.credit_spread = One
    /\ Pricing(fullSec).ctx.cs_t = <<One, One>>

(***************************************************************************)
(* Properties of the TF lattice                                            *)
(***************************************************************************)
Nodes == {<<t, i>> \in (0..res.meta.N) \X (0..res.meta.N) : i <= t}

NonNegativeLegs == \A n \in Nodes : RLe(Zero, D[n[1]][n[2]]) /\ RLe(Zero, E[n[1]][n[2]])

UsedRates(sec, N) == StepRates(sec.stepwise_risk_free_rates, sec.risk_free_rate, N)

UsedSpreads(sec, N) == StepRates(sec.stepwise_credit_spreads, sec.credit_spread, N)

\* 0 <= q <= 1 at every step: d <= exp(r_t * dt) <= u.
RatesWithinLattice ==
    \A t \in 1..res.meta.N :
        /\ RLe(res.meta.d, UsedRates(fullSec, res.meta.N)[t])
        /\ RLe(UsedRates(fullSec, res.meta.N)[t], res.meta.u)

\* C2 as stated: for any step rates, every node of a TF lattice has
\* D[t][i] >= 0 and E[t][i] >= 0.
C2_LegsNonNegative ==
    (pc = "priced" /\ IsTF(fullSec)) => NonNegativeLegs

\* C2 as amended: when the step rates keep 0 <= q <= 1 at every step, every
\* node of a TF lattice has D[t][i] >= 0 and E[t][i] >= 0.
C2_LegsNonNegativeWithinBand ==
    (pc = "priced" /\ IsTF(fullSec) /\ RatesWithinLattice) => NonNegativeLegs

C2_Witness ==
    /\ pc = "priced"
    /\ RatesWithinLattice
    /\ res.meta.N = 2
    /\ UsedRates(fullSec, 2)[1] # One
    /\ RLt(Zero, fullSec.coupon_rate)
    /\ \E n \in Nodes : n[1] < 2 /\ RLt(Zero, D[n[1]][n[2]]) /\ RLt(Zero, E[n[1]][n[2]])
    /\ \E n \in Nodes : Flags[n[1]][n[2]] = "PUT"
    /\ \E n \in Nodes : Flags[n[1]][n[2]] = "CONVERT"

NeverConverts == \A n \in Nodes : Flags[n[1]][n[2]] \in {"HOLD", "MAT_REDEEM"}

\* C8: with no call, no put and no node that converts, D[0][0] + E[0][0] is
\* the host DCF unit value, fair_value_total = fair_value_host and
\* fair_value_deriv = 0.
C8_PlainBondIsHost ==
    (/\ pc = "priced" /\ IsTF(fullSec)
     /\ ~fullSec.has_call_option /\ ~fullSec.has_put_option
     /\ NeverConverts) =>
        /\ RAdd(D[0][0], E[0][0]) = host_val_unit(Pricing(fullSec).ctx)
        /\ res.fair_value_total = res.fair_value_host
        /\ res.fair_value_deriv = Zero

WithoutPut(sec) == [sec EXCEPT !.has_put_option = FALSE]

PutNotWorse ==
    RLe(runPricingEngine(WithoutPut(fullSec)).fair_value_total, res.fair_value_total)

\* C10 as stated: a holder put, whatever its price and window, never lowers
\* the long fair_value_total of the same security without the put.
C10_PutNeverLowers ==
    (pc = "priced" /\ IsTF(fullSec) /\ fullSec.position = "HOLDER"
     /\ fullSec.has_put_option) => PutNotWorse

NoCreditSpread == \A t \in 1..res.meta.N : UsedSpreads(fullSec, res.meta.N)[t] = One

\* C10 as amended: when the credit spread is zero at every step and the
\* step rates keep 0 <= q <= 1, a holder put never lowers the long
\* fair_value_total of the same security without the put.
C10_PutNeverLowersNoSpread ==
    (pc = "priced" /\ IsTF(fullSec) /\ fullSec.position = "HOLDER"
     /\ fullSec.has_put_option /\ NoCreditSpread /\ RatesWithinLattice) => PutNotWorse

C10_Witness ==
    /\ pc = "priced"
    /\ fullSec.has_put_option
    /\ NoCreditSpread /\ RatesWithinLattice
    /\ \E n \in Nodes : Flags[n[1]][n[2]] = "PUT"
    /\ Flags[0][0] # "PUT"
    /\ RLt(runPricingEngine(WithoutPut(fullSec)).fair_value_total, res.fair_value_total)

WithoutCall(sec) == [sec EXCEPT !.has_call_option = FALSE]

CallNotBetter ==
    RLe(res.fair_value_total, runPricingEngine(WithoutCall(fullSec)).fair_value_total)

\* C11 as stated: an issuer call, whatever its price and window, never
\* raises the long fair_value_total of the same security without the call.
C11_CallNeverRaises ==
    (pc = "priced" /\ IsTF(fullSec) /\ fullSec.position = "HOLDER"
     /\ fullSec.has_call_option) => CallNotBetter

\* C11 as amended: when the credit spread is zero at every step and the
\* step rates keep 0 <= q <= 1, an issuer call never raises the long
\* fair_value_total of the same security without the call.
C11_CallNeverRaisesNoSpread ==
    (pc = "priced" /\ IsTF(fullSec) /\ fullSec.position = "HOLDER"
     /\ fullSec.has_call_option /\ NoCreditSpread /\ RatesWithinLattice) => CallNotBetter

C11_Witness ==
    /\ pc = "priced"
    /\ fullSec.has_call_option
    /\ NoCreditSpread /\ RatesWithinLattice
    /\ \E n \in Nodes : Flags[n[1]][n[2]] \in {"CALLED", "CALLED_FORCE_CONV"}
    /\ RLt(res.fair_value_total, runPricingEngine(WithoutCall(fullSec)).fair_value_total)

(***************************************************************************)
(* Properties of the deal aggregate                                        *)
(***************************************************************************)
RECURSIVE SumOver(_, _)
SumOver(results, pick) ==
    IF results = <<>> THEN Zero
    ELSE LET v == Head(results).fair_value_total
         IN  RAdd(IF pick = "positive" THEN RMax(v, Zero) ELSE RMax(RNeg(v), Zero),
                  SumOver(Tail(results), pick))

\* C6: deal_total_asset - deal_total_liab = deal_total_value, and the two
\* legs are the non-negative sums of the positive and of the negated
\* negative per-security totals.
C6_AssetMinusLiabIsTotal ==
    pc = "done" =>
        /\ RSub(dealResult.deal_total_asset, dealResult.deal_total_liab)
               = dealResult.deal_total_value
        /\ RLe(Zero, dealResult.deal_total_asset)
        /\ RLe(Zero, dealResult.deal_total_liab)
        /\ dealResult.deal_total_asset = SumOver(dealResult.results, "positive")
        /\ dealResult.deal_total_liab = SumOver(dealResult.results, "negative")

C6_Witness ==
    /\ pc = "done"
    /\ Len(dealResult.results) = 2
    /\ RLt(Zero, dealResult.deal_total_asset)
    /\ RLt(Zero, dealResult.deal_total_liab)
    /\ dealResult.deal_total_value # Zero

\* The securities of the deal whose pricing does not throw, in deal order.
Remaining(dl) == SelectSeq(dl.securities, LAMBDA secDef : ~Throws(FullSchema(dl, secDef)))

RECURSIVE SumField(_, _)
SumField(results, field) ==
    IF results = <<>> THEN Zero
    ELSE RAdd(Head(results)[field], SumField(Tail(results), field))

\* C14: DealResult.results holds, in deal order, the complete result of each
\* security whose pricing did not throw and nothing of one that threw, and
\* every deal total is the sum over those results.
C14_FailureIsolation ==
    pc = "done" =>
        /\ Len(dealResult.results) = Len(Remaining(deal))
        /\ \A j \in 1..Len(Remaining(deal)) :
               /\ dealResult.results[j].id = Remaining(deal)[j].id
               /\ dealResult.results[j] =
                      SecurityResult(runPricingEngine(FullSchema(deal, Remaining(deal)[j])),
                                     Remaining(deal)[j])
        /\ dealResult.deal_total_value = SumField(dealResult.results, "fair_value_total")
        /\ dealResult.deal_total_host = SumField(dealResult.results, "fair_value_host")
        /\ dealResult.deal_total_deriv = SumField(dealResult.results, "fair_value_deriv")
        /\ dealResult.deal_total_deriv_asset
               = SumField(dealResult.results, "fair_value_deriv_asset")
        /\ dealResult.deal_total_deriv_liab
               = SumField(dealResult.results, "fair_value_deriv_liab")
        /\ dealResult.deal_total_asset = SumOver(dealResult.results, "positive")
        /\ dealResult.deal_total_liab = SumOver(dealResult.results, "negative")

C14_Witness ==
    /\ pc = "done"
    /\ Len(deal.securities) = 2
    /\ Throws(FullSchema(deal, deal.securities[1]))
    /\ ~Throws(FullSchema(deal, deal.securities[2]))
    /\ Len(dealResult.results) = 1
    /\ dealResult.results[1].id = 2
    /\ dealResult.deal_total_value = dealResult.results[1].fair_value_total
    /\ dealResult.deal_total_value # Zero

(***************************************************************************)
(* Properties of the node logs                                             *)
(***************************************************************************)
\* The nodes (t, i) with 0 <= t <= min(N, 5) and 0 <= i <= t.
SampledNodes ==
    {<<t, i>> \in (0..Min(res.meta.N, SampleLogSteps)) \X (0..Min(res.meta.N, SampleLogSteps)) :
        i <= t}

\* C15: on a grid of N >= 1 steps the node_logs of every security type hold
\* exactly one row for each node (t, i) with 0 <= t <= min(N, 5) and
\* 0 <= i <= t, and no other row.
C15_NodeLogsCoverSampledNodes ==
    (pc = "priced" /\ res.meta.N >= 1) =>
        /\ Len(res.node_logs) = Cardinality(SampledNodes)
        /\ {<<res.node_logs[k].t, res.node_logs[k].i>> : k \in 1..Len(res.node_logs)}
               = SampledNodes

(***************************************************************************)
(* Employee options: exit rates, early-exercise multiples, vesting dates   *)
(***************************************************************************)
\* exp(lambda * dt) for lambda = 0 and two positive exit rates.
ExitFactors == {One, Rat(5, 4), Num(2)}

\* Multiples of the strike: 1, 2 and the default of an absent field.
ExerciseMultiples == {One, Num(2), Null}

\* Vesting ends on the valuation date, after one week, or (absent) at maturity.
VestingDates == {NoDate, 0, 7}

\* exp(r * dt): below d, negative and zero and positive rates inside the band, above u.
ESORateFactors == {Rat(1, 4), Rat(3, 4), One, Rat(5, 4), Rat(5, 2)}

ESOSecurities ==
    {Merge(BaseSecurity,
           [security_type |-> "ESO", position |-> pos, share_price_current |-> s0,
            maturity_date |-> mat, risk_free_rate |-> rf,
            employee_exit_rate |-> g, early_exercise_multiple |-> m,
            vesting_end_date |-> vest]) :
        pos \in {"HOLDER", "ISSUER"}, s0 \in SpotPrices, mat \in MaturityDates,
        rf \in ESORateFactors, g \in ExitFactors, m \in ExerciseMultiples,
        vest \in VestingDates}

InitESO == InitEngine(ESOSecurities)

SpecESO == InitESO /\ [][NextEngine]_vars

(***************************************************************************)
(* Properties of the ESO lattice                                           *)
(***************************************************************************)
\* The long fair_value_total of a security.
LongTotal(sec) == runPricingEngine([sec EXCEPT !.position = "HOLDER"]).fair_value_total

WithExitFactor(sec, g) == [sec EXCEPT !.employee_exit_rate = g]

HigherExitRateLowers ==
    \A g \in ExitFactors :
        RLt(fullSec.employee_exit_rate, g) =>
            RLt(LongTotal(WithExitFactor(fullSec, g)), LongTotal(fullSec))

ESOContinuation(t, i) ==
    RDiv(RAdd(RMul(UpProbability(Pricing(fullSec).ctx, t), E[t + 1][i + 1]),
              RMul(RSub(One, UpProbability(Pricing(fullSec).ctx, t)), E[t + 1][i])),
         UsedRates(fullSec, res.meta.N)[t + 1])

\* Every non-terminal node holds exp(-lambda * dt) times the exercised or
\* continued value, every terminal node the bare payoff.
SurvivalAppliedAfterDecision ==
    \A n \in Nodes :
        IF n[1] = res.meta.N
        THEN E[n[1]][n[2]] = RMax(RSub(S[n[1]][n[2]], fullSec.strike_price), Zero)
        ELSE RMul(E[n[1]][n[2]], fullSec.employee_exit_rate)
                 = IF Flags[n[1]][n[2]] = "EXERCISE_SUBOPT"
                   THEN RMax(RSub(S[n[1]][n[2]], fullSec.strike_price), Zero)
                   ELSE ESOContinuation(n[1], n[2])

WithMultiple(sec, m) == [sec EXCEPT !.early_exercise_multiple = m]

\* The multiple in force: an absent field is the default of 1000.
MultipleOf(m) == OrDefault(m, Num(DefaultEarlyExerciseMultiple))

HigherMultipleNotBetter ==
    \A m \in ExerciseMultiples :
        RLe(MultipleOf(fullSec.early_exercise_multiple), MultipleOf(m)) =>
            RLe(LongTotal(WithMultiple(fullSec, m)), LongTotal(fullSec))

\* C17 as stated: for an ESO a higher early-exercise multiple never gives a
\* higher long fair_value_total.
C17_MultipleNeverRaises ==
    (pc = "priced" /\ fullSec.security_type = "ESO") => HigherMultipleNotBetter

\* C17 as amended: when the step rates keep 0 <= q <= 1, a higher
\* early-exercise multiple never gives an ESO a higher long fair_value_total.
C17_MultipleNeverRaisesWithinBand ==
    (pc = "priced" /\ fullSec.security_type = "ESO" /\ RatesWithinLattice) =>
        HigherMultipleNotBetter

C17_Witness ==
    /\ pc = "priced" /\ fullSec.security_type = "ESO"
    /\ RatesWithinLattice
    /\ res.meta.N = 2
    /\ fullSec.early_exercise_multiple = One
    /\ \E n \in Nodes : Flags[n[1]][n[2]] = "EXERCISE_SUBOPT"
    /\ RLt(LongTotal(WithMultiple(fullSec, Null)), LongTotal(fullSec))

TenorOrdered == \A k \in 1..(Len(curve) - 1) : RLt(curve[k].tenor_years, curve[k + 1].tenor_years)

Between(y, a, b) == RLe(RMin(a, b), y) /\ RLe(y, RMax(a, b))

\* C18: on a curve of strictly ascending tenors the interpolated yield is the
\* first yield at or below the first knot, the last yield at or above the
\* last knot, a knot's yield at that knot, and strictly between two adjacent
\* knots the point of the straight line through them, which lies between
\* their two yields.
C18_CurveInterpolation ==
    (pc = "interpolated" /\ TenorOrdered) =>
        /\ RLe(targetTenor, curve[1].tenor_years) => rf_y = curve[1].yield
        /\ RLe(curve[Len(curve)].tenor_years, targetTenor) => rf_y = curve[Len(curve)].yield
        /\ \A k \in 1..Len(curve) :
               targetTenor = curve[k].tenor_years => rf_y = curve[k].yield
        /\ \A k \in 1..(Len(curve) - 1) :
               (RLt(curve[k].tenor_years, targetTenor)
                /\ RLt(targetTenor, curve[k + 1].tenor_years)) =>
                   /\ RMul(RSub(rf_y, curve[k].yield),
                           RSub(curve[k + 1].tenor_years, curve[k].tenor_years))
                          = RMul(RSub(targetTenor, curve[k].tenor_years),
                                 RSub(curve[k + 1].yield, curve[k].yield))
                   /\ Between(rf_y, curve[k].yield, curve[k + 1].yield)

C18_Witness ==
    /\ pc = "interpolated" /\ TenorOrdered
    /\ Len(curve) = 3
    /\ targetTenor = Num(3)
    /\ curve[2].yield = Num(3) /\ curve[3].yield = Num(1)
    /\ rf_y = Num(2)

(***************************************************************************)
(* Properties of the decision cascade                                      *)
(***************************************************************************)
InnerNodes == {n \in Nodes : n[1] < res.meta.N}

StepDate(t) == generateTimeGrid(fullSec.valuation_date, fullSec.maturity_date)[t + 1].date

InCallWindow(t) ==
    /\ fullSec.has_call_option /\ fullSec.call_price # Null
    /\ fullSec.call_start_date # NoDate
    /\ fullSec.call_start_date <= StepDate(t)
    /\ StepDate(t) <= (IF fullSec.call_end_date # NoDate THEN fullSec.call_end_date
                       ELSE fullSec.maturity_date)

InPutWindow(t) ==
    /\ fullSec.has_put_option /\ fullSec.put_price # Null
    /\ fullSec.put_start_date # NoDate
    /\ fullSec.put_start_date <= StepDate(t)
    /\ StepDate(t) <= (IF fullSec.put_end_date # NoDate THEN fullSec.put_end_date
                       ELSE fullSec.maturity_date)

StepQ(t) ==
    RDiv(RSub(UsedRates(fullSec, res.meta.N)[t + 1], res.meta.d),
         RSub(res.meta.u, res.meta.d))

\* D_cont and E_cont of node (t, i) from the stored values of its children.
DCont(t, i) ==
    RAdd(RDiv(RAdd(RMul(StepQ(t), D[t + 1][i + 1]), RMul(RSub(One, StepQ(t)), D[t + 1][i])),
              RMul(UsedRates(fullSec, res.meta.N)[t + 1],
                   UsedSpreads(fullSec, res.meta.N)[t + 1])),
         unit_periodic_cf(fullSec, res.meta.dt))

ECont(t, i) ==
    RDiv(RAdd(RMul(StepQ(t), E[t + 1][i + 1]), RMul(RSub(One, StepQ(t)), E[t + 1][i])),
         UsedRates(fullSec, res.meta.N)[t + 1])

\* conv = S[t][i] * ratio(t)
Conv(t, i) ==
    RMul(S[t][i],
         IF Truthy(fullSec.conversion_ratio) /\ RLt(Zero, fullSec.conversion_ratio)
            /\ fullSec.anti_dilution_type = "NONE"
         THEN fullSec.conversion_ratio
         ELSE RDiv(unit_face_value(fullSec), cp_at_step[t + 1]))

CascadeV1(t, i) == RMax(RAdd(DCont(t, i), ECont(t, i)), Conv(t, i))

CascadeV2(t, i) ==
    IF InCallWindow(t)
    THEN RMin(CascadeV1(t, i), RMax(fullSec.call_price, Conv(t, i)))
    ELSE CascadeV1(t, i)

CascadeV3(t, i) ==
    IF InPutWindow(t) THEN RMax(CascadeV2(t, i), fullSec.put_price) ELSE CascadeV2(t, i)

\* C19: at every non-terminal TF node D[t][i] + E[t][i] = V3, where
\* V1 = max(D_cont + E_cont, conv), V2 = min(V1, max(call_price, conv)) inside
\* the call window and V1 outside it, V3 = max(V2, put_price) inside the put
\* window and V2 outside it: conversion, then call, then put.
C19_CascadeValue ==
    (pc = "priced" /\ IsTF(fullSec)) =>
        \A n \in InnerNodes : RAdd(D[n[1]][n[2]], E[n[1]][n[2]]) = CascadeV3(n[1], n[2])

C19_Witness ==
    /\ pc = "priced" /\ IsTF(fullSec)
    /\ res.meta.N = 2
    /\ InCallWindow(0) /\ InPutWindow(0)
    /\ RLt(fullSec.call_price, fullSec.put_price)
    /\ RLt(CascadeV2(0, 0), CascadeV1(0, 0))
    /\ RLt(CascadeV2(0, 0), CascadeV3(0, 0))
    /\ RAdd(D[0][0], E[0][0]) = fullSec.put_price
    /\ \E n \in InnerNodes : Flags[n[1]][n[2]] = "CONVERT"

FlagLegs(t, i) ==
    /\ Flags[t][i] \in {"CONVERT", "CALLED_FORCE_CONV"} =>
           D[t][i] = Zero /\ E[t][i] = Conv(t, i)
    /\ Flags[t][i] = "CALLED" =>
           /\ D[t][i] = fullSec.call_price /\ E[t][i] = Zero
           /\ RLe(Conv(t, i), fullSec.call_price)
    /\ Flags[t][i] = "PUT" => D[t][i] = fullSec.put_price /\ E[t][i] = Zero
    /\ Flags[t][i] = "HOLD" => D[t][i] = DCont(t, i) /\ E[t][i] = ECont(t, i)
    /\ Flags[t][i] \in {"CALLED", "CALLED_FORCE_CONV"} => InCallWindow(t)
    /\ Flags[t][i] = "PUT" => InPutWindow(t)

\* C20: at every non-terminal TF node the flag names the legs: CONVERT and
\* CALLED_FORCE_CONV have D = 0 and E = conv; CALLED has D = call_price,
\* E = 0 and conv <= call_price; PUT has D = put_price and E = 0; HOLD has
\* D = D_cont and E = E_cont; CALLED and CALLED_FORCE_CONV occur only inside
\* the call window and PUT only inside the put window.
C20_FlagLegConsistency ==
    (pc = "priced" /\ IsTF(fullSec)) =>
        \A n \in InnerNodes :
            /\ Flags[n[1]][n[2]] \in {"HOLD", "CONVERT", "CALLED", "CALLED_FORCE_CONV", "PUT"}
            /\ FlagLegs(n[1], n[2])

C20_Witness ==
    /\ pc = "priced" /\ IsTF(fullSec)
    /\ res.meta.N = 2
    /\ Flags[0][0] = "HOLD"
    /\ RLt(Zero, D[0][0]) /\ RLt(Zero, E[0][0])
    /\ Flags[1][1] = "CALLED_FORCE_CONV"
    /\ Flags[1][0] = "PUT"

(***************************************************************************)
(* Participation: every TF type with either participation_type, with and   *)
(* without a cap, and options whose windows reach the maturity date        *)
(***************************************************************************)
ParticipationCaps == {Null, Num(2)}

ParticipationSecurities ==
    {Merge(BaseSecurity,
           [security_type |-> ty, participation_type |-> part,
            participation_cap_multiple |-> cap, share_price_current |-> s0,
            maturity_date |-> mc[1], coupon_rate |-> mc[2], risk_free_rate |-> rf,
            has_put_option |-> put[1], put_price |-> put[2], put_start_date |-> put[3],
            has_call_option |-> call[1], call_price |-> call[2],
            call_start_date |-> call[3]]) :
        ty \in {"RCPS", "CB", "CPS"}, part \in {"NON_PARTICIPATING", "PARTICIPATING"},
        cap \in ParticipationCaps, s0 \in SpotPrices, mc \in MaturityCoupons,
        rf \in {One, Rat(5, 2)},
        put \in {<<FALSE, Null, NoDate>>, <<TRUE, Num(150), 0>>},
        call \in {<<FALSE, Null, NoDate>>, <<TRUE, Num(130), 0>>}}

InitParticipation == InitEngine(ParticipationSecurities)

SpecParticipation == InitParticipation /\ [][NextEngine]_vars

(***************************************************************************)
(* Properties of the terminal step                                         *)
(***************************************************************************)
\* hold = R_unit + c_unit
TerminalHold ==
    RAdd(unit_redemption_value(fullSec), unit_periodic_cf(fullSec, res.meta.dt))

ParticipatingRCPS ==
    fullSec.security_type = "RCPS" /\ fullSec.participation_type = "PARTICIPATING"

\* conv of terminal node i as stated for the instrument.
TerminalConv(i) ==
    IF ParticipatingRCPS
    THEN IF fullSec.participation_cap_multiple # Null
         THEN RMax(RMin(RAdd(TerminalHold, Conv(res.meta.N, i)),
                        RMul(unit_face_value(fullSec), fullSec.participation_cap_multiple)),
                   Conv(res.meta.N, i))
         ELSE RAdd(TerminalHold, Conv(res.meta.N, i))
    ELSE Conv(res.meta.N, i)

TerminalLegs(i, convert_flag) ==
    IF RLt(TerminalHold, TerminalConv(i))
    THEN /\ D[res.meta.N][i] = Zero
         /\ E[res.meta.N][i] = TerminalConv(i)
         /\ Flags[res.meta.N][i] = convert_flag
    ELSE /\ D[res.meta.N][i] = TerminalHold
         /\ E[res.meta.N][i] = Zero
         /\ Flags[res.meta.N][i] = "MAT_REDEEM"

\* C21: at every node of step N, conv > hold gives D = 0, E = conv and the
\* flag MAT_PARTICIPATE for a participating RCPS and MAT_CONVERT for every
\* other instrument; conv <= hold gives D = hold, E = 0 and MAT_REDEEM; call
\* and put leave step N alone.
C21_TerminalCondition ==
    (pc = "priced" /\ IsTF(fullSec) /\ res.meta.N >= 1) =>
        \A i \in 0..res.meta.N :
            TerminalLegs(i, IF ParticipatingRCPS THEN "MAT_PARTICIPATE" ELSE "MAT_CONVERT")

\* C22: the terminal conversion payoff of a participating RCPS is
\* max(min(hold + conv_base, F_unit * cap), conv_base) with a cap and
\* hold + conv_base without one, that of every other instrument is
\* conv_base, and at non-terminal nodes the conversion value is conv_base
\* for every instrument.
C22_ParticipatingPayoff ==
    (pc = "priced" /\ IsTF(fullSec) /\ res.meta.N >= 1) =>
        /\ \A i \in 0..res.meta.N :
               RAdd(D[res.meta.N][i], E[res.meta.N][i]) = RMax(TerminalHold, TerminalConv(i))
        /\ \A i \in 0..res.meta.N :
               RLt(TerminalHold, TerminalConv(i)) => E[res.meta.N][i] = TerminalConv(i)
        /\ \A n \in InnerNodes :
               /\ RAdd(D[n[1]][n[2]], E[n[1]][n[2]]) = CascadeV3(n[1], n[2])
               /\ Flags[n[1]][n[2]] = "CONVERT" => E[n[1]][n[2]] = Conv(n[1], n[2])

C22_Witness ==
    /\ pc = "priced" /\ ParticipatingRCPS
    /\ fullSec.participation_cap_multiple # Null
    /\ res.meta.N = 2
    /\ \E i \in 0..2 : /\ E[2][i] = RMul(unit_face_value(fullSec),
                                          fullSec.participation_cap_multiple)
                        /\ RLt(Conv(2, i), E[2][i])
    /\ \E i \in 0..2 : /\ E[2][i] = Conv(2, i)
                        /\ RLt(RMul(unit_face_value(fullSec),
                                     fullSec.participation_cap_multiple), E[2][i])
    /\ \E n \in InnerNodes : Flags[n[1]][n[2]] = "CONVERT"

(***************************************************************************)
(* Properties of the refixing sweep                                        *)
(***************************************************************************)
MinDate(dates) == CHOOSE d \in dates : \A e \in dates : d <= e

\* The events in ascending date order, same-dated events in list order.
RECURSIVE InDateOrder(_, _)
InDateOrder(events, dates) ==
    IF dates = {} THEN <<>>
    ELSE SelectSeq(events, LAMBDA evt : evt.event_date = MinDate(dates))
         \o InDateOrder(events, dates \ {MinDate(dates)})

\* The events dated on or before step t, in date order.
EventsDue(t) ==
    InDateOrder(fullSec.reset_events,
                {fullSec.reset_events[k].event_date : k \in 1..Len(fullSec.reset_events)}
                    \cap {d \in -1..StepDate(t) : TRUE})

\* Each event of the list applied once, from the first to the last.
RECURSIVE ApplyAll(_, _)
ApplyAll(events, cp) ==
    IF events = <<>> THEN cp
    ELSE ApplyAll(Tail(events),
                  ApplyResetEvent(fullSec.anti_dilution_type, fullSec.refixing_floor_price,
                                  cp, Head(events)))

SingleRatchet ==
    /\ fullSec.anti_dilution_type = "FULL_RATCHET"
    /\ Len(fullSec.reset_events) = 1
    /\ RLt(fullSec.reset_events[1].issue_price_new, fullSec.conversion_price)
    /\ FloorSet(fullSec) =>
           RLe(fullSec.refixing_floor_price, fullSec.reset_events[1].issue_price_new)

\* C23: under FULL_RATCHET or WA_DOWN_ONLY cp_eff[t] is the initial
\* conversion price after the events dated on or before grid[t].date, applied
\* once each in ascending date order whatever the order of the input list;
\* meta.eff_cp_final = cp_eff[N]; a single ratchet event of price p with
\* floor <= p < CP0 gives CP0 before its date and p from its date on; under
\* NONE cp_eff[t] = CP0 at every step.
C23_RefixingSweep ==
    (pc = "priced" /\ IsTF(fullSec) /\ res.meta.N >= 1) =>
        /\ Len(cp_at_step) = res.meta.N + 1
        /\ res.meta.eff_cp_final = cp_at_step[res.meta.N + 1]
        /\ fullSec.anti_dilution_type \in {"FULL_RATCHET", "WA_DOWN_ONLY"} =>
               \A t \in 0..res.meta.N :
                   cp_at_step[t + 1] = ApplyAll(EventsDue(t), fullSec.conversion_price)
        /\ SingleRatchet =>
               \A t \in 0..res.meta.N :
                   cp_at_step[t + 1] = IF StepDate(t) < fullSec.reset_events[1].event_date
                                       THEN fullSec.conversion_price
                                       ELSE fullSec.reset_events[1].issue_price_new
        /\ fullSec.anti_dilution_type = "NONE" =>
               \A t \in 0..res.meta.N : cp_at_step[t + 1] = fullSec.conversion_price

C23_Witness ==
    /\ pc = "priced" /\ fullSec.anti_dilution_type = "WA_DOWN_ONLY"
    /\ res.meta.N = 2
    /\ Len(fullSec.reset_events) = 2
    /\ fullSec.reset_events[1].event_date > fullSec.reset_events[2].event_date
    /\ RLt(cp_at_step[1], fullSec.conversion_price)
    /\ RLt(cp_at_step[2], cp_at_step[1])
    /\ res.meta.eff_cp_final = cp_at_step[3]

(***************************************************************************)
(* Conversion-ratio overrides under every anti-dilution policy             *)
(***************************************************************************)
\* No override, and overrides of zero, of 2 and of -1.
RatioOverrides == {Null, Zero, Num(2), Num(-1)}

\* No event, an event on the valuation date and one inside the first week.
RatioEventLists ==
    {<<>>,
     <<[event_date |-> 0, issue_price_new |-> Num(10), issue_shares_new |-> Num(1),
        shares_outstanding_before_reset |-> Num(3)]>>,
     <<[event_date |-> 5, issue_price_new |-> Num(30), issue_shares_new |-> Num(1),
        shares_outstanding_before_reset |-> Num(3)]>>}

RatioSecurities ==
    {Merge(BaseSecurity,
           [security_type |-> ty, conversion_ratio |-> ratio, anti_dilution_type |-> ad,
            reset_events |-> evts, share_price_current |-> s0, maturity_date |-> mat,
            risk_free_rate |-> rf]) :
        ty \in {"RCPS", "CB"}, ratio \in RatioOverrides,
        ad \in {"NONE", "FULL_RATCHET", "WA_DOWN_ONLY"}, evts \in RatioEventLists,
        s0 \in SpotPrices, mat \in MaturityDates, rf \in {One, Rat(5, 2)}}

InitRatio == InitEngine(RatioSecurities)

SpecRatio == InitRatio /\ [][NextEngine]_vars

(***************************************************************************)
(* Properties of the conversion ratio                                      *)
(***************************************************************************)
OverrideInForce ==
    /\ fullSec.conversion_ratio # Null /\ RLt(Zero, fullSec.conversion_ratio)
    /\ fullSec.anti_dilution_type = "NONE"

\* ratio(t) as stated.
RatioAt(t) ==
    IF OverrideInForce THEN fullSec.conversion_ratio
    ELSE RDiv(unit_face_value(fullSec), cp_at_step[t + 1])

\* C24: the conversion value of every node is S[t][i] times the override
\* when the override is positive and the policy is NONE, and S[t][i] times
\* F_unit / cp_eff[t] in every other case, also under a policy without events.
C24_EffectiveRatio ==
    (pc = "priced" /\ IsTF(fullSec) /\ res.meta.N >= 1
     /\ ~fullSec.has_call_option /\ ~fullSec.has_put_option /\ ~ParticipatingRCPS) =>
        /\ \A i \in 0..res.meta.N :
               RAdd(D[res.meta.N][i], E[res.meta.N][i])
                   = RMax(TerminalHold, RMul(S[res.meta.N][i], RatioAt(res.meta.N)))
        /\ \A n \in InnerNodes :
               RAdd(D[n[1]][n[2]], E[n[1]][n[2]])
                   = RMax(RAdd(DCont(n[1], n[2]), ECont(n[1], n[2])),
                          RMul(S[n[1]][n[2]], RatioAt(n[1])))

C24_Witness ==
    /\ pc = "priced" /\ res.meta.N = 2
    /\ fullSec.conversion_ratio = Num(2)
    /\ fullSec.anti_dilution_type = "FULL_RATCHET"
    /\ fullSec.reset_events = <<>>
    /\ Flags[2][2] = "MAT_CONVERT"
    /\ E[2][2] = RMul(S[2][2], RDiv(unit_face_value(fullSec), fullSec.conversion_price))
    /\ E[2][2] # RMul(S[2][2], fullSec.conversion_ratio)
    /\ \E n \in InnerNodes : Flags[n[1]][n[2]] = "CONVERT"

(***************************************************************************)
(* Option windows: start and end dates before, on and between grid dates   *)
(***************************************************************************)
WindowStarts == {NoDate, 0, 3, 7, 8}

WindowEnds == {NoDate, 0, 6, 7}

\* <<has_option, price, start_date, end_date>> for an option of the given
\* price: every window with the flag on, one with the flag off and one with
\* no price.
Windows(price) ==
    {<<TRUE, price, start, end>> : start \in WindowStarts, end \in WindowEnds}
    \cup {<<FALSE, price, 0, NoDate>>, <<TRUE, Null, 0, NoDate>>}

WindowSecurities ==
    {Merge(BaseSecurity,
           [security_type |-> "CB", share_price_current |-> s0, maturity_date |-> mat,
            risk_free_rate |-> rf,
            has_call_option |-> call[1], call_price |-> call[2],
            call_start_date |-> call[3], call_end_date |-> call[4],
            has_put_option |-> put[1], put_price |-> put[2],
            put_start_date |-> put[3], put_end_date |-> put[4]]) :
        s0 \in {Num(40), Num(160)}, mat \in {10, 14}, rf \in {One, Rat(5, 2)},
        call \in Windows(Num(50)), put \in Windows(Num(150))}

InitWindows == InitEngine(WindowSecurities)

SpecWindows == InitWindows /\ [][NextEngine]_vars

(***************************************************************************)
(* Properties of the option windows                                        *)
(***************************************************************************)
\* The put is taken at node (t, i).
PutTaken(t, i) == Flags[t][i] = "PUT"

\* The call is taken at node (t, i) and not overridden by the put.
CallTaken(t, i) == Flags[t][i] \in {"CALLED", "CALLED_FORCE_CONV"}

\* C25: at every non-terminal node the put acts exactly when step t is in the
\* put window (flag on, price non-null, start given, start <= grid[t].date
\* <= end or maturity, ends included) and the put price is above the value
\* reached so far, and the call, where the put does not follow it, exactly
\* when step t is in the call window and the holder's value on call is
\* below the value reached so far; with the flag off or no start date
\* neither acts at any step.
C25_OptionWindows ==
    (pc = "priced" /\ IsTF(fullSec)) =>
        /\ \A n \in InnerNodes :
               /\ PutTaken(n[1], n[2]) <=>
                      (InPutWindow(n[1]) /\ RLt(CascadeV2(n[1], n[2]), fullSec.put_price))
               /\ ~PutTaken(n[1], n[2]) =>
                      (CallTaken(n[1], n[2]) <=>
                          (/\ InCallWindow(n[1])
                           /\ RLt(RMax(fullSec.call_price, Conv(n[1], n[2])),
                                  CascadeV1(n[1], n[2]))))
        /\ (~fullSec.has_call_option \/ fullSec.call_start_date = NoDate) =>
               \A n \in InnerNodes : ~CallTaken(n[1], n[2])
        /\ (~fullSec.has_put_option \/ fullSec.put_start_date = NoDate) =>
               \A n \in InnerNodes : ~PutTaken(n[1], n[2])

C25_Witness ==
    /\ pc = "priced" /\ res.meta.N = 2
    /\ fullSec.has_call_option /\ fullSec.call_start_date = 3 /\ fullSec.call_end_date = 7
    /\ fullSec.has_put_option /\ fullSec.put_start_date = 0 /\ fullSec.put_end_date = 0
    /\ PutTaken(0, 0)
    /\ \E i \in 0..1 : CallTaken(1, i)
    /\ \A i \in 0..1 : ~PutTaken(1, i)

(***************************************************************************)
(* Time grids: every maturity of 1 .. 7 * MaxWeeks days after valuation    *)
(***************************************************************************)
ValuationDates == {0, 2}

\* <<valuation_date, maturity_date>>
GridDates == {<<val, val + days>> : val \in ValuationDates, days \in 1..(WeekDays * MaxWeeks)}

GridSecurities ==
    {Merge(BaseSecurity,
           [security_type |-> ty, share_price_current |-> s0,
            valuation_date |-> dates[1], maturity_date |-> dates[2]]) :
        ty \in {"RCPS", "CB", "ESO"}, s0 \in SpotPrices, dates \in GridDates}

InitGrid == InitEngine(GridSecurities)

SpecGrid == InitGrid /\ [][NextEngine]_vars

(***************************************************************************)
(* Properties of the time grid                                             *)
(***************************************************************************)
Grid == generateTimeGrid(fullSec.valuation_date, fullSec.maturity_date)

DaysToMaturity == fullSec.maturity_date - fullSec.valuation_date

\* C26: for a maturity strictly after valuation the grid starts on the
\* valuation date with years 0, numbers its steps 0 .. N, has every node but
\* the last strictly before maturity and 7 days after its predecessor, ends
\* on the maturity date with years = days / 365 at a gap of 1 .. 7 days, so
\* that dates strictly increase and N = ceil(days / 7).
C26_TimeGrid ==
    (pc = "priced" /\ DaysToMaturity > 0) =>
        /\ Len(Grid) = res.meta.N + 1
        /\ Grid[1].date = fullSec.valuation_date /\ Grid[1].t_years = Zero
        /\ \A k \in 1..Len(Grid) : Grid[k].step = k - 1
        /\ \A k \in 1..(Len(Grid) - 1) : Grid[k].date < fullSec.maturity_date
        /\ \A k \in 2..(Len(Grid) - 1) : Grid[k].date = Grid[k - 1].date + 7
        /\ Grid[Len(Grid)].date = fullSec.maturity_date
        /\ Grid[Len(Grid)].t_years = Rat(DaysToMaturity, 365)
        /\ Grid[Len(Grid)].date - Grid[Len(Grid) - 1].date \in 1..7
        /\ \A k \in 2..Len(Grid) : Grid[k - 1].date < Grid[k].date
        /\ res.meta.N = (DaysToMaturity + 6) \div 7
        /\ RMul(res.meta.dt, Num(res.meta.N)) = Rat(DaysToMaturity, 365)

C26_Witness ==
    /\ pc = "priced" /\ fullSec.valuation_date = 2
    /\ DaysToMaturity = 14
    /\ res.meta.N = 2
    /\ Grid[2].date = 9 /\ Grid[3].date = 16

(***************************************************************************)
(* The ESO exercise rule                                                   *)
(***************************************************************************)
VestingEndOrMaturity ==
    IF fullSec.vesting_end_date # NoDate THEN fullSec.vesting_end_date
    ELSE fullSec.maturity_date

Intrinsic(t, i) == RMax(RSub(S[t][i], fullSec.strike_price), Zero)

ExerciseDue(t, i) ==
    /\ StepDate(t) >= VestingEndOrMaturity
    /\ RLe(RMul(OrDefault(fullSec.early_exercise_multiple, Num(DefaultEarlyExerciseMultiple)),
                fullSec.strike_price), S[t][i])
    /\ RLt(ESOContinuation(t, i), Intrinsic(t, i))

\* The rule itself: value before attrition and flag of every non-terminal node.
ESOExerciseRule ==
    \A n \in InnerNodes :
        /\ RMul(E[n[1]][n[2]], fullSec.employee_exit_rate)
               = IF ExerciseDue(n[1], n[2]) THEN Intrinsic(n[1], n[2])
                 ELSE ESOContinuation(n[1], n[2])
        /\ Flags[n[1]][n[2]]
               = IF ExerciseDue(n[1], n[2]) THEN "EXERCISE_SUBOPT"
                 ELSE IF StepDate(n[1]) < VestingEndOrMaturity THEN "UNVESTED"
                 ELSE "HOLD"

NeverExercisedEarly == \A n \in InnerNodes : Flags[n[1]][n[2]] # "EXERCISE_SUBOPT"

\* C27 as stated: a non-terminal node holds, before attrition, the intrinsic
\* value with flag EXERCISE_SUBOPT exactly when it is vested, S >= m * K and
\* intrinsic > continuation, and otherwise the continuation flagged UNVESTED
\* before the vesting end and HOLD after it; with no vesting end date no
\* non-terminal node is exercised.
C27_ExerciseRule ==
    pc = "priced" =>
        /\ ESOExerciseRule
        /\ fullSec.vesting_end_date = NoDate => NeverExercisedEarly

\* C27 amended: the rule holds as stated; with no vesting end date no
\* non-terminal node is exercised when the maturity date is after the
\* valuation date.
C27_ExerciseRuleBeforeMaturity ==
    pc = "priced" =>
        /\ ESOExerciseRule
        /\ (fullSec.vesting_end_date = NoDate
              /\ fullSec.maturity_date > fullSec.valuation_date) => NeverExercisedEarly

C27_Witness ==
    /\ pc = "priced" /\ res.meta.N = 2
    /\ fullSec.vesting_end_date = 7
    /\ Flags[0][0] = "UNVESTED"
    /\ Flags[1][1] = "EXERCISE_SUBOPT"
    /\ Flags[1][0] = "HOLD"

(***************************************************************************)
(* One pricing, node by node: the terminal loop and the backward induction *)
(***************************************************************************)
InductionSecurities ==
    {Merge(BaseSecurity,
           [security_type |-> ty, share_price_current |-> s0, maturity_date |-> mat,
            risk_free_rate |-> rf,
            has_put_option |-> put[1], put_price |-> put[2], put_start_date |-> put[3]]) :
        ty \in {"RCPS", "CB", "ESO"}, s0 \in SpotPrices,
        mat \in {0, WeekDays * MaxWeeks - 4, WeekDays * MaxWeeks},
        rf \in {One, Rat(5, 2)},
        put \in {<<FALSE, Null, NoDate>>, <<TRUE, Num(150), 0>>}}

isESO == fullSec.security_type = "ESO"

\* The values the loops of this pricing run on: the engine's arguments and,
\* for calculateTF, the unit cash flow and the refixing schedule.
LoopContext ==
    LET time_grid == generateTimeGrid(fullSec.valuation_date, fullSec.maturity_date)
    IN  IF isESO THEN EngineArgs(fullSec, time_grid, GridSteps(time_grid))
        ELSE TFContext(EngineArgs(fullSec, time_grid, GridSteps(time_grid)))

\* Array.from(...).fill(0) and fill(""): every entry of a lattice set to one value.
FilledLattice(N, value) == [t \in 0..N |-> [i \in 0..t |-> value]]

\* X[t + 1][i + 1] and X[t + 1][i] as the loop body finds them in the arrays.
StoredNode(t, i) ==
    [D |-> IF isESO THEN Zero ELSE D[t][i], E |-> E[t][i], flag |-> Flags[t][i]]

\* Variant: the inner loop stops one node short of the end of the row.
NextCursor_short_row(t, i) == IF i + 1 < t THEN <<t, i + 1>> ELSE <<t - 1, 0>>

\* i++ inside a row (i <= t), then t-- and i = 0.
NextCursor(t, i) == IF i < t THEN <<t, i + 1>> ELSE <<t - 1, 0>>

\* The assignments X[t][i] = ... of one loop body.
WriteNode(t, i, node) ==
    /\ E' = [E EXCEPT ![t][i] = node.E]
    /\ D' = IF isESO THEN D ELSE [D EXCEPT ![t][i] = node.D]
    /\ Flags' = [Flags EXCEPT ![t][i] = node.flag]
    /\ written' = Append(written, <<t, i>>)
    /\ cursor' = NextCursor(t, i)

\* Everything before the terminal loop: the grid, the rates, the refixing
\* schedule and the allocation of the lattices.
AllocateLattices ==
    /\ pc = "ready"
    /\ LoopContext.N > 0
    /\ S' = [t \in 0..LoopContext.N |-> [i \in 0..t |-> SharePrice(LoopContext, t, i)]]
    /\ E' = FilledLattice(LoopContext.N, Zero)
    /\ D' = IF isESO THEN NoLattice ELSE FilledLattice(LoopContext.N, Zero)
    /\ Flags' = FilledLattice(LoopContext.N, "")
    /\ cp_at_step' = IF isESO THEN <<>> ELSE LoopContext.cp_at_step
    /\ cursor' = <<LoopContext.N, 0>>
    /\ written' = <<>>
    /\ pc' = "terminal"
    /\ UNCHANGED <<fullSec, res, deal, securityResults, dealResult, curve, targetTenor, rf_y>>

\* One pass of for (i = 0; i <= N; i++).
TerminalNode ==
    /\ pc = "terminal"
    /\ WriteNode(cursor[1], cursor[2],
                 IF isESO THEN ESOTerminalNode(LoopContext, cursor[2])
                 ELSE TFTerminalNode(LoopContext, cursor[2]))
    /\ pc' = IF cursor'[1] = cursor[1] THEN "terminal" ELSE "induction"
    /\ UNCHANGED <<fullSec, res, S, cp_at_step, deal, securityResults, dealResult,
                   curve, targetTenor, rf_y>>

\* One pass of the inner loop of for (t = N - 1; t >= 0; t--).
InductionNode ==
    /\ pc = "induction"
    /\ cursor[1] >= 0
    /\ WriteNode(cursor[1], cursor[2],
                 IF isESO
                 THEN ESONode(LoopContext, cursor[1], cursor[2],
                              StoredNode(cursor[1] + 1, cursor[2] + 1),
                              StoredNode(cursor[1] + 1, cursor[2]))
                 ELSE TFNode(LoopContext, cursor[1], cursor[2],
                             StoredNode(cursor[1] + 1, cursor[2] + 1),
                             StoredNode(cursor[1] + 1, cursor[2])))
    /\ pc' = "induction"
    /\ UNCHANGED <<fullSec, res, S, cp_at_step, deal, securityResults, dealResult,
                   curve, targetTenor, rf_y>>

\* After the loops: the result is read from the root of the lattice.
ReturnResult ==
    /\ pc = "induction"
    /\ cursor[1] < 0
    /\ res' = Pricing(fullSec).result
    /\ pc' = "priced"
    /\ UNCHANGED <<fullSec, S, D, E, Flags, cp_at_step, deal, securityResults, dealResult,
                   curve, targetTenor, rf_y, cursor, written>>

InitInduction == InitEngine(InductionSecurities)

NextInduction == AllocateLattices \/ TerminalNode \/ InductionNode \/ ReturnResult

SpecInduction == InitInduction /\ [][NextInduction]_vars

(***************************************************************************)
(* Properties of the order of the lattice loops                            *)
(***************************************************************************)
LatticeSteps == GridSteps(Grid)

LatticeNodes == {<<t, i>> \in (0..LatticeSteps) \X (0..LatticeSteps) : i <= t}

WrittenBefore(k) == {written[j] : j \in 1..(k - 1)}

\* The order of the writes so far: step N first, rows in descending order and
\* left only when complete, no node twice, both children before their parent.
WriteOrder ==
    /\ written # <<>> => written[1][1] = LatticeSteps
    /\ \A k \in 1..Len(written) :
           /\ written[k] \in LatticeNodes
           /\ written[k] \notin WrittenBefore(k)
           /\ k > 1 => \/ written[k][1] = written[k - 1][1]
                       \/ /\ written[k][1] = written[k - 1][1] - 1
                          /\ \A i \in 0..written[k - 1][1] :
                                 <<written[k - 1][1], i>> \in WrittenBefore(k)
           /\ written[k][1] < LatticeSteps =>
                  /\ <<written[k][1] + 1, written[k][2]>> \in WrittenBefore(k)
                  /\ <<written[k][1] + 1, written[k][2] + 1>> \in WrittenBefore(k)

\* At the end every node has been written, and the lattice is the one the
\* result was read from.
AllWritten ==
    pc = "priced" =>
        /\ {written[k] : k \in 1..Len(written)} = LatticeNodes
        /\ Len(written) = Cardinality(LatticeNodes)
        /\ E = LatticeOf(Pricing(fullSec).lattice, LatticeSteps, "E")
        /\ Flags = LatticeOf(Pricing(fullSec).lattice, LatticeSteps, "flag")
        /\ ~isESO => D = LatticeOf(Pricing(fullSec).lattice, LatticeSteps, "D")

\* A step changes no node but the one it appends to the writes, and so none
\* that was written before.
SingleWrite ==
    pc \in {"terminal", "induction"} =>
        \A n \in LatticeNodes :
            (written' = written \/ n # written'[Len(written')]) =>
                /\ E'[n[1]][n[2]] = E[n[1]][n[2]]
                /\ Flags'[n[1]][n[2]] = Flags[n[1]][n[2]]
                /\ ~isESO => D'[n[1]][n[2]] = D[n[1]][n[2]]

\* C28: in both engines step N is filled first and the steps N - 1, ..., 0
\* follow in that order; every node is written exactly once, after both of
\* its children, and no written node is modified again.
C28_InductionOrder == [](WriteOrder /\ AllWritten) /\ [][SingleWrite]_vars

C28_Witness ==
    /\ pc = "induction" /\ LatticeSteps = 2
    /\ written = <<<<2, 0>>, <<2, 1>>, <<2, 2>>, <<1, 0>>, <<1, 1>>>>
    /\ cursor = <<0, 0>>
    /\ Flags[1][1] = "PUT" /\ Flags[0][0] = ""

(***************************************************************************)
(* The conversion floor                                                    *)
(***************************************************************************)
NodeValue(t, i) == RAdd(D[t][i], E[t][i])

\* C29: at every node of the TF lattice, terminal or not and whatever call
\* and put terms are active, D[t][i] + E[t][i] >= S[t][i] * ratio(t).
C29_ConversionFloor ==
    (pc = "priced" /\ IsTF(fullSec)) =>
        \A n \in Nodes : RLe(Conv(n[1], n[2]), NodeValue(n[1], n[2]))

C29_Witness ==
    /\ pc = "priced" /\ IsTF(fullSec) /\ res.meta.N = 2
    /\ fullSec.has_call_option /\ fullSec.has_put_option
    /\ Flags[1][1] = "CALLED_FORCE_CONV"
    /\ NodeValue(1, 1) = Conv(1, 1)
    /\ \E n \in Nodes : Flags[n[1]][n[2]] = "CALLED"
    /\ \E n \in Nodes : RLt(Conv(n[1], n[2]), NodeValue(n[1], n[2]))

(***************************************************************************)
(* The curve-source label                                                  *)
(***************************************************************************)
\* The risk-free step rates of the sampled rows before maturity: <<t, rf_t>>.
LoggedStepRates ==
    {<<res.node_logs[k].t, res.node_logs[k].rf_t>> :
        k \in {j \in 1..Len(res.node_logs) : res.node_logs[j].t < res.meta.N}}

ArrayLongEnough ==
    /\ fullSec.stepwise_risk_free_rates # <<Null>>
    /\ Len(fullSec.stepwise_risk_free_rates) >= res.meta.N

\* The induction ran on the first N entries of the supplied array.
StepwiseArrayUsed ==
    /\ ArrayLongEnough
    /\ \A r \in LoggedStepRates : r[2] = fullSec.stepwise_risk_free_rates[r[1] + 1]

\* The induction ran on the flat scalar.
FlatFallbackUsed ==
    /\ ~ArrayLongEnough
    /\ \A r \in LoggedStepRates : r[2] = fullSec.risk_free_rate

\* C30: meta.used_curve_source is "Bootstrapped Curve" exactly when the step
\* rates used came from the supplied stepwise array (length >= N), and
\* "Flat Rate" exactly when the flat scalar fallback was used.
C30_CurveSourceLabel ==
    (pc = "priced" /\ res.meta.N >= 1) =>
        /\ res.meta.used_curve_source = "Bootstrapped Curve" <=> StepwiseArrayUsed
        /\ res.meta.used_curve_source = "Flat Rate" <=> FlatFallbackUsed

\* One of the two sources is always the one used.
OneSourceUsed == (pc = "priced" /\ res.meta.N >= 1) => (StepwiseArrayUsed \/ FlatFallbackUsed)

====
